---- MODULE Spec2Model ----
(***************************************************************************)
(* A model of the binpack codec of sfbinpack (Disservin/binpack-rust):     *)
(* the chess core (Position, do_move, pseudo_legal_moves), the 32-byte     *)
(* stem codec, the bit-packed chain codec, the chunked file, and the       *)
(* streaming writer and reader built on them.                              *)
(*                                                                         *)
(* Bitboards (u64 in the source) are sets of squares: OR is union, AND is  *)
(* intersection, XOR is symmetric difference, count() is Cardinality and   *)
(* iteration (pop_lsb) is ascending order.  Bytes are integers 0..255.     *)
(***************************************************************************)
EXTENDS Integers, Sequences, FiniteSets, TLC

(***************************************************************************)
(* Generic helpers                                                         *)
(***************************************************************************)
Squares == 0..63

SetMin(S) == CHOOSE x \in S : \A y \in S : x <= y

\* The squares of a bitboard in ascending order (Bitboard::iter, pop_lsb).
\* The function f itself.  TLC keeps a function constructor as a closure and
\* evaluates it where it is applied; merged with the empty function it is
\* evaluated once, to an explicit function.
Evaluated(f) == f @@ << >>

SQUARE_SEQ == [i \in 1..64 |-> i - 1]
SortedSeq(S) == SelectSeq(SQUARE_SEQ, LAMBDA sq : sq \in S)

RECURSIVE Flatten(_)
Flatten(ss) == IF ss = << >> THEN << >> ELSE Head(ss) \o Flatten(Tail(ss))

XorSet(A, B) == (A \ B) \cup (B \ A)

RECURSIVE Pow2(_)
Pow2(n) == IF n = 0 THEN 1 ELSE 2 * Pow2(n - 1)

(***************************************************************************)
(* chess/piecetype.rs, chess/piece.rs, colours, squares                    *)
(***************************************************************************)
Pawn == 0
Knight == 1
Bishop == 2
Rook == 3
Queen == 4
King == 5
PtNone == 6

White == 0
Black == 1
Opp(c) == 1 - c

SQ_NONE == 64

\* Piece::new: id = (piece_type << 1) | color;  Piece::none() has id 12.
MkPiece(pt, c) == pt * 2 + c
PIECE_NONE == MkPiece(PtNone, White)
piece_type(pc) == pc \div 2
piece_color(pc) == pc % 2

FileOf(sq) == sq % 8
RankOf(sq) == sq \div 8
MkSq(f, r) == r * 8 + f

\* Named squares used by castling.
A1 == MkSq(0, 0)
B1 == MkSq(1, 0)
C1 == MkSq(2, 0)
D1 == MkSq(3, 0)
E1 == MkSq(4, 0)
F1 == MkSq(5, 0)
G1 == MkSq(6, 0)
H1 == MkSq(7, 0)
A8 == MkSq(0, 7)
B8 == MkSq(1, 7)
C8 == MkSq(2, 7)
D8 == MkSq(3, 7)
E8 == MkSq(4, 7)
F8 == MkSq(5, 7)
G8 == MkSq(6, 7)
H8 == MkSq(7, 7)

\* CastlingRights: a 4-flag set.
WHITE_KING_SIDE == "WK"
WHITE_QUEEN_SIDE == "WQ"
BLACK_KING_SIDE == "BK"
BLACK_QUEEN_SIDE == "BQ"
CR_WHITE == {WHITE_KING_SIDE, WHITE_QUEEN_SIDE}
CR_BLACK == {BLACK_KING_SIDE, BLACK_QUEEN_SIDE}
CR_NONE == {}

\* Move types (MoveType ordinals) and moves.
Normal == 0
Promotion == 1
Castle == 2
EnPassant == 3

MkMove(from, to, mt, promo) ==
  [from |-> from, to |-> to, mtype |-> mt, promoted_piece |-> promo]
MoveNormal(from, to) == MkMove(from, to, Normal, PIECE_NONE)
MoveEnPassant(from, to) == MkMove(from, to, EnPassant, PIECE_NONE)
MovePromotion(from, to, pc) == MkMove(from, to, Promotion, pc)
MoveCastle(from, to) == MkMove(from, to, Castle, PIECE_NONE)
MoveNull == MkMove(SQ_NONE, SQ_NONE, Normal, PIECE_NONE)

\* Move::castle_type: Short iff the destination (the rook's square) is on
\* file H.
\* IsShortCastle testing the king's target file instead of the rook's.
IsShortCastleKingTarget(mv) == FileOf(mv.to) = 6

IsShortCastle(mv) == FileOf(mv.to) = 7

(***************************************************************************)
(* chess/attacks.rs: attack tables                                         *)
(***************************************************************************)
Shift(sq, deltas) ==
  { MkSq(FileOf(sq) + d[1], RankOf(sq) + d[2]) :
      d \in { e \in deltas : /\ FileOf(sq) + e[1] \in 0..7
                             /\ RankOf(sq) + e[2] \in 0..7 } }

KnightDeltas ==
  { <<1, 2>>, <<2, 1>>, <<-1, 2>>, <<-2, 1>>,
    <<1, -2>>, <<2, -1>>, <<-1, -2>>, <<-2, -1>> }
KingDeltas == ((-1..1) \X (-1..1)) \ { <<0, 0>> }

\* The tables of the source hold, for every square, exactly these sets.
PAWN_ATTACKS ==
  [c \in {White, Black} |->
    [sq \in Squares |->
      Shift(sq, IF c = White THEN { <<-1, 1>>, <<1, 1>> }
                             ELSE { <<-1, -1>>, <<1, -1>> })]]
KNIGHT_ATTACKS == [sq \in Squares |-> Shift(sq, KnightDeltas)]
KING_ATTACKS == [sq \in Squares |-> Shift(sq, KingDeltas)]

pawn(c, sq) == PAWN_ATTACKS[c][sq]
knight(sq) == KNIGHT_ATTACKS[sq]
king(sq) == KING_ATTACKS[sq]

\* Sliding attacks.  The squares of the ray from sq in direction d, nearest
\* first.
RECURSIVE RayFrom(_, _, _)
RayFrom(f, r, d) ==
  IF (f + d[1]) \in 0..7 /\ (r + d[2]) \in 0..7
  THEN << MkSq(f + d[1], r + d[2]) >> \o RayFrom(f + d[1], r + d[2], d)
  ELSE << >>

BishopDirs == << <<1, 1>>, <<1, -1>>, <<-1, 1>>, <<-1, -1>> >>
RookDirs == << <<1, 0>>, <<-1, 0>>, <<0, 1>>, <<0, -1>> >>

BISHOP_RAYS ==
  [sq \in Squares |->
    [i \in 1..4 |-> RayFrom(FileOf(sq), RankOf(sq), BishopDirs[i])]]
ROOK_RAYS ==
  [sq \in Squares |->
    [i \in 1..4 |-> RayFrom(FileOf(sq), RankOf(sq), RookDirs[i])]]

\* The attacked squares along one ray: up to and including the first
\* occupied square.
RayAttack(ray, occupied) ==
  LET blockers == { i \in 1..Len(ray) : ray[i] \in occupied }
      stop == IF blockers = {} THEN Len(ray) ELSE SetMin(blockers)
  IN { ray[i] : i \in 1..stop }

bishop(sq, occupied) ==
  UNION { RayAttack(BISHOP_RAYS[sq][i], occupied) : i \in 1..4 }
rook(sq, occupied) ==
  UNION { RayAttack(ROOK_RAYS[sq][i], occupied) : i \in 1..4 }
queen(sq, occupied) == bishop(sq, occupied) \cup rook(sq, occupied)

piece_attacks(pt, sq, occupied) ==
  CASE pt = Knight -> knight(sq)
    [] pt = Bishop -> bishop(sq, occupied)
    [] pt = Rook -> rook(sq, occupied)
    [] pt = Queen -> queen(sq, occupied)
    [] pt = King -> king(sq)

(***************************************************************************)
(* chess/position.rs                                                       *)
(***************************************************************************)
\* Position::new.  bb is indexed by piece type + 1, bb_color by colour + 1.
PositionNew ==
  [ bb |-> << {}, {}, {}, {}, {}, {} >>,
    bb_color |-> << {}, {} >>,
    pieces |-> Evaluated([sq \in Squares |-> PIECE_NONE]),
    stm |-> White,
    castling_rights |-> CR_NONE,
    halfm |-> 0,
    fullm |-> 1,
    enpassant |-> SQ_NONE ]

side_to_move(pos) == pos.stm
occupied(pos) == pos.bb_color[1] \cup pos.bb_color[2]
pieces_bb(pos, c) == pos.bb_color[c + 1]
pieces_bb_color(pos, c, pt) == pos.bb_color[c + 1] \cap pos.bb[pt + 1]
piece_at(pos, sq) == pos.pieces[sq]
ep_square(pos) == pos.enpassant

place_piece(pos, side, pc, sq) ==
  [pos EXCEPT !.bb_color[side + 1] = @ \cup {sq},
              !.bb[piece_type(pc) + 1] = @ \cup {sq},
              !.pieces[sq] = pc]

place(pos, pc, sq) == place_piece(pos, piece_color(pc), pc, sq)

\* remove_piece that clears the bitboards and leaves the piece array alone.
remove_piece_bitboards_only(pos, side, pc, sq) ==
  [pos EXCEPT !.bb_color[side + 1] = XorSet(@, {sq}),
              !.bb[piece_type(pc) + 1] = XorSet(@, {sq})]

remove_piece(pos, side, pc, sq) ==
  [pos EXCEPT !.bb_color[side + 1] = XorSet(@, {sq}),
              !.bb[piece_type(pc) + 1] = XorSet(@, {sq}),
              !.pieces[sq] = PIECE_NONE]

is_attacked(pos, sq, c) ==
  LET occ == occupied(pos)
      pcs(pt) == pieces_bb_color(pos, c, pt)
  IN \/ pawn(Opp(c), sq) \cap pcs(Pawn) # {}
     \/ knight(sq) \cap pcs(Knight) # {}
     \/ king(sq) \cap pcs(King) # {}
     \/ bishop(sq, occ) \cap (pcs(Bishop) \cup pcs(Queen)) # {}
     \/ rook(sq, occ) \cap (pcs(Rook) \cup pcs(Queen)) # {}

\* Bitboard::lsb of the king bitboard.
king_sq(pos, c) ==
  LET k == pieces_bb_color(pos, c, King)
  IN IF k = {} THEN SQ_NONE ELSE SetMin(k)

is_checked(pos, c) == is_attacked(pos, king_sq(pos, c), Opp(c))

update_castling_rights(cr, from, to) ==
  LET touched(sq) == from = sq \/ to = sq
  IN cr \ ( (IF touched(E1) THEN CR_WHITE ELSE {})
            \cup (IF touched(E8) THEN CR_BLACK ELSE {})
            \cup (IF touched(A1) THEN {WHITE_QUEEN_SIDE} ELSE {})
            \cup (IF touched(H1) THEN {WHITE_KING_SIDE} ELSE {})
            \cup (IF touched(A8) THEN {BLACK_QUEEN_SIDE} ELSE {})
            \cup (IF touched(H8) THEN {BLACK_KING_SIDE} ELSE {}) )

\* to.index() ^ 8
Xor8(sq) == IF (sq \div 8) % 2 = 0 THEN sq + 8 ELSE sq - 8

\* The board part of do_move: the mover leaves `from`, a captured piece is
\* removed, and the piece (or the promoted piece, or king and rook) is placed.
MovePieces(pos, mv) ==
  LET from == mv.from
      to == mv.to
      stm == pos.stm
      piece == piece_at(pos, from)
      captured == piece_at(pos, to)
      genuine_capture == captured # PIECE_NONE /\ mv.mtype # Castle
      p1 == remove_piece(pos, stm, piece, from)
      Place(p2) ==
        CASE mv.mtype = Promotion ->
               place_piece(p2, stm, mv.promoted_piece, to)
          [] mv.mtype = EnPassant ->
               LET captured_sq == Xor8(to)
               IN place_piece(
                    remove_piece(p2, Opp(stm), piece_at(p2, captured_sq),
                                 captured_sq),
                    stm, piece, to)
          [] mv.mtype = Normal -> place_piece(p2, stm, piece, to)
          [] mv.mtype = Castle ->
               LET short == IsShortCastle(mv)
                   rook_to == IF short THEN (IF stm = White THEN F1 ELSE F8)
                              ELSE (IF stm = White THEN D1 ELSE D8)
                   king_to == IF short THEN (IF stm = White THEN G1 ELSE G8)
                              ELSE (IF stm = White THEN C1 ELSE C8)
                   rk == piece_at(p2, to)
               IN place_piece(
                    place_piece(remove_piece(p2, stm, rk, to), stm, rk,
                                rook_to),
                    stm, piece, king_to)
  IN Place(IF genuine_capture THEN remove_piece(p1, Opp(stm), captured, to)
           ELSE p1)

\* EpSimulate with the king of the side that made the double push tested
\* instead of the king of the capturing side.
EpSimulateChecksMover(pos, piece, to, ep, enemy_sq) ==
  LET stm == pos.stm
      enemy_pawn == piece_at(pos, enemy_sq)
      s1 == remove_piece(pos, Opp(stm), enemy_pawn, enemy_sq)
      s2 == place_piece(s1, Opp(stm), enemy_pawn, ep)
      Undo(s3) ==
        LET u1 == place_piece(s3, Opp(stm), enemy_pawn, enemy_sq)
            u2 == remove_piece(u1, Opp(stm), enemy_pawn, ep)
            u3 == place_piece(u2, stm, piece, to)
        IN [pos |-> u3, is_checked |-> is_checked(s3, stm)]
  IN Undo(remove_piece(s2, stm, piece, to))

\* One round of the en-passant simulation of do_move: the enemy pawn on
\* enemy_sq captures on ep, the mover's king is tested, and the capture is
\* undone.  Returns the position after the undo and whether the capturing
\* side was left in check.
EpSimulate(pos, piece, to, ep, enemy_sq) ==
  LET stm == pos.stm
      enemy_pawn == piece_at(pos, enemy_sq)
      s1 == remove_piece(pos, Opp(stm), enemy_pawn, enemy_sq)
      s2 == place_piece(s1, Opp(stm), enemy_pawn, ep)
      Undo(s3) ==
        LET u1 == place_piece(s3, Opp(stm), enemy_pawn, enemy_sq)
            u2 == remove_piece(u1, Opp(stm), enemy_pawn, ep)
            u3 == place_piece(u2, stm, piece, to)
        IN [pos |-> u3, is_checked |-> is_checked(s3, Opp(stm))]
  IN Undo(remove_piece(s2, stm, piece, to))

\* The loop over the enemy pawns attacking ep, in ascending square order,
\* stopping at the first capture that is legal.
RECURSIVE EpLoop(_, _, _, _, _)
EpLoop(pos, piece, to, ep, enemy_sqs) ==
  IF enemy_sqs = << >> THEN pos
  ELSE LET Tried(r) ==
             IF ~r.is_checked THEN [r.pos EXCEPT !.enpassant = ep]
             ELSE EpLoop(r.pos, piece, to, ep, Tail(enemy_sqs))
       IN Tried(EpSimulate(pos, piece, to, ep, Head(enemy_sqs)))

Abs(x) == IF x < 0 THEN -x ELSE x

\* do_move without the legality filter: every double push of a pawn sets
\* the en-passant square.
do_move_ep_unfiltered(pos, mv) ==
  LET from == mv.from
      to == mv.to
      stm == pos.stm
      piece == piece_at(pos, from)
      captured == piece_at(pos, to)
      genuine_capture == captured # PIECE_NONE /\ mv.mtype # Castle
  IN [MovePieces(pos, mv) EXCEPT
        !.halfm = IF genuine_capture \/ piece_type(piece) = Pawn
                  THEN 0 ELSE (@ + 1) % 256,
        !.fullm = IF stm = Black THEN (@ + 1) % 65536 ELSE @,
        !.castling_rights = update_castling_rights(@, from, to),
        !.enpassant = IF piece_type(piece) = Pawn /\ Abs(to - from) = 16
                      THEN Xor8(to) ELSE SQ_NONE,
        !.stm = Opp(stm)]

\* Position::do_move.  halfm is a u8 and fullm a u16.
do_move(pos, mv) ==
  LET from == mv.from
      to == mv.to
      stm == pos.stm
      piece == piece_at(pos, from)
      captured == piece_at(pos, to)
      genuine_capture == captured # PIECE_NONE /\ mv.mtype # Castle
      withEp(st) ==
        IF piece_type(piece) = Pawn /\ Abs(to - from) = 16
        THEN LET ep == Xor8(to)
                 cands == pawn(stm, ep)
                            \cap pieces_bb_color(st, Opp(stm), Pawn)
             IN EpLoop(st, piece, to, ep, SortedSeq(cands))
        ELSE st
  IN [withEp([MovePieces(pos, mv) EXCEPT
                !.halfm = IF genuine_capture \/ piece_type(piece) = Pawn
                          THEN 0 ELSE (@ + 1) % 256,
                !.fullm = IF stm = Black THEN (@ + 1) % 65536 ELSE @,
                !.castling_rights = update_castling_rights(@, from, to),
                !.enpassant = SQ_NONE])
        EXCEPT !.stm = Opp(stm)]

after_move(pos, mv) == do_move(pos, mv)

set_ply(pos, ply) == [pos EXCEPT !.fullm = (ply \div 2) + 1]
pos_ply(pos) == ((pos.fullm - 1) * 2 + pos.stm) % 65536
set_rule50_counter(pos, counter) == [pos EXCEPT !.halfm = counter % 256]
rule50_counter(pos) == pos.halfm

(***************************************************************************)
(* chess/attacks.rs: pseudo_legal_moves                                    *)
(***************************************************************************)
PROMOTION_PIECES == << Queen, Rook, Bishop, Knight >>

super_attacks_from_square(sq, c, pos) ==
  LET occ == occupied(pos)
      pcs(pt) == pieces_bb_color(pos, Opp(c), pt)
  IN (pawn(c, sq) \cap pcs(Pawn))
       \cup (knight(sq) \cap pcs(Knight))
       \cup (bishop(sq, occ) \cap (pcs(Bishop) \cup pcs(Queen)))
       \cup (rook(sq, occ) \cap (pcs(Rook) \cup pcs(Queen)))
       \cup (king(sq) \cap pcs(King))

\* The moves of the pawn on from_idx: pushes first, then the attacked
\* squares in ascending order.
PawnMoves(pos, from_idx) ==
  LET side == pos.stm
      direction == IF side = White THEN 8 ELSE -8
      one_step == from_idx + direction
      start_rank == IF side = White THEN 1 ELSE 6
      isLast(idx) == (side = White /\ idx >= 56) \/ (side = Black /\ idx < 8)
      promos(to) ==
        [i \in 1..4 |->
           MovePromotion(from_idx, to, MkPiece(PROMOTION_PIECES[i], side))]
      pushes ==
        IF one_step >= 0 /\ one_step < 64
           /\ piece_at(pos, one_step) = PIECE_NONE
        THEN IF isLast(one_step) THEN promos(one_step)
             ELSE << MoveNormal(from_idx, one_step) >>
                  \o (LET two_step == from_idx + 2 * direction
                      IN IF RankOf(from_idx) = start_rank
                            /\ two_step >= 0 /\ two_step < 64
                            /\ piece_at(pos, one_step) = PIECE_NONE
                            /\ piece_at(pos, two_step) = PIECE_NONE
                         THEN << MoveNormal(from_idx, two_step) >>
                         ELSE << >>)
        ELSE << >>
      attackMove(to_idx) ==
        IF pos.enpassant # SQ_NONE /\ to_idx = pos.enpassant
        THEN << MoveEnPassant(from_idx, to_idx) >>
        ELSE LET target == piece_at(pos, to_idx)
             IN IF target # PIECE_NONE /\ piece_color(target) # side
                THEN IF isLast(to_idx) THEN promos(to_idx)
                     ELSE << MoveNormal(from_idx, to_idx) >>
                ELSE << >>
      atts == SortedSeq(pawn(side, from_idx))
  IN pushes \o Flatten([i \in 1..Len(atts) |-> attackMove(atts[i])])

\* The moves of a knight, bishop, rook, queen or king on from_idx: the
\* attacked squares that hold no piece of the mover, in ascending order.
PieceMoves(pos, pt, from_idx) ==
  LET side == pos.stm
      ok(to) == LET t == piece_at(pos, to)
                IN t = PIECE_NONE \/ piece_color(t) # side
      targets == SortedSeq({ to \in piece_attacks(pt, from_idx, occupied(pos))
                               : ok(to) })
  IN [i \in 1..Len(targets) |-> MoveNormal(from_idx, targets[i])]

MovesOfType(pos, pt) ==
  LET froms == SortedSeq(pieces_bb_color(pos, pos.stm, pt))
  IN Flatten([i \in 1..Len(froms) |->
                IF pt = Pawn THEN PawnMoves(pos, froms[i])
                ELSE PieceMoves(pos, pt, froms[i])])

\* CastlingMoves without the test that the king is not in check.
CastlingMovesInCheck(pos) ==
  LET side == pos.stm
      ksq == king_sq(pos, side)
      cr == pos.castling_rights
      empty(sq) == piece_at(pos, sq) = PIECE_NONE
      Moves(safe) ==
        IF side = White
        THEN (IF WHITE_KING_SIDE \in cr /\ F1 \in safe /\ G1 \in safe
                 /\ empty(F1) /\ empty(G1)
              THEN << MoveCastle(ksq, H1) >> ELSE << >>)
             \o (IF WHITE_QUEEN_SIDE \in cr /\ C1 \in safe /\ D1 \in safe
                    /\ empty(B1) /\ empty(C1) /\ empty(D1)
                 THEN << MoveCastle(ksq, A1) >> ELSE << >>)
        ELSE (IF BLACK_KING_SIDE \in cr /\ F8 \in safe /\ G8 \in safe
                 /\ empty(F8) /\ empty(G8)
              THEN << MoveCastle(ksq, H8) >> ELSE << >>)
             \o (IF BLACK_QUEEN_SIDE \in cr /\ C8 \in safe /\ D8 \in safe
                    /\ empty(B8) /\ empty(C8) /\ empty(D8)
                 THEN << MoveCastle(ksq, A8) >> ELSE << >>)
  IN Moves({ sq \in { C1, D1, F1, G1, C8, D8, F8, G8 } :
               super_attacks_from_square(sq, side, pos) = {} })

CastlingMoves(pos) ==
  LET side == pos.stm
      ksq == king_sq(pos, side)
      cr == pos.castling_rights
      empty(sq) == piece_at(pos, sq) = PIECE_NONE
      \* `safe` holds the squares of the king and of its path that no enemy
      \* piece attacks
      Moves(safe) ==
        IF ksq \notin safe THEN << >>
        ELSE IF side = White
        THEN (IF WHITE_KING_SIDE \in cr /\ F1 \in safe /\ G1 \in safe
                 /\ empty(F1) /\ empty(G1)
              THEN << MoveCastle(ksq, H1) >> ELSE << >>)
             \o (IF WHITE_QUEEN_SIDE \in cr /\ C1 \in safe /\ D1 \in safe
                    /\ empty(B1) /\ empty(C1) /\ empty(D1)
                 THEN << MoveCastle(ksq, A1) >> ELSE << >>)
        ELSE (IF BLACK_KING_SIDE \in cr /\ F8 \in safe /\ G8 \in safe
                 /\ empty(F8) /\ empty(G8)
              THEN << MoveCastle(ksq, H8) >> ELSE << >>)
             \o (IF BLACK_QUEEN_SIDE \in cr /\ C8 \in safe /\ D8 \in safe
                    /\ empty(B8) /\ empty(C8) /\ empty(D8)
                 THEN << MoveCastle(ksq, A8) >> ELSE << >>)
  IN Moves({ sq \in { ksq, C1, D1, F1, G1, C8, D8, F8, G8 } :
               super_attacks_from_square(sq, side, pos) = {} })

pseudo_legal_moves(pos) ==
  LET order == << Pawn, Knight, Bishop, Rook, Queen, King >>
  IN Flatten([i \in 1..6 |-> MovesOfType(pos, order[i])])
       \o CastlingMoves(pos)

\* perft of the tests: the moves whose resulting position does not leave the
\* mover's king attacked, counted to the given depth.
RECURSIVE SumSeq(_)
SumSeq(s) == IF s = << >> THEN 0 ELSE Head(s) + SumSeq(Tail(s))

RECURSIVE perft(_, _)
perft(pos, depth) ==
  IF depth = 0 THEN 1
  ELSE LET moves == pseudo_legal_moves(pos)
       IN SumSeq([i \in 1..Len(moves) |->
                    LET new_pos == after_move(pos, moves[i])
                    IN IF ~is_checked(new_pos, pos.stm)
                       THEN perft(new_pos, depth - 1) ELSE 0])

(***************************************************************************)
(* chess/position.rs: from_fen.  A FEN is given as its six fields, the     *)
(* board and castling fields as sequences of one-character strings and the *)
(* en-passant field as a square index (SQ_NONE for "-").                   *)
(***************************************************************************)
DigitVal(c) ==
  CASE c = "1" -> 1 [] c = "2" -> 2 [] c = "3" -> 3 [] c = "4" -> 4
    [] c = "5" -> 5 [] c = "6" -> 6 [] c = "7" -> 7 [] c = "8" -> 8
    [] OTHER -> 0

FenPiece(c) ==
  CASE c = "P" -> MkPiece(Pawn, White) [] c = "p" -> MkPiece(Pawn, Black)
    [] c = "N" -> MkPiece(Knight, White) [] c = "n" -> MkPiece(Knight, Black)
    [] c = "B" -> MkPiece(Bishop, White) [] c = "b" -> MkPiece(Bishop, Black)
    [] c = "R" -> MkPiece(Rook, White) [] c = "r" -> MkPiece(Rook, Black)
    [] c = "Q" -> MkPiece(Queen, White) [] c = "q" -> MkPiece(Queen, Black)
    [] c = "K" -> MkPiece(King, White) [] c = "k" -> MkPiece(King, Black)

\* The file reached before character i of a rank's characters: the sum of
\* the widths of the characters before it.
RECURSIVE FenFile(_, _)
FenFile(chars, i) ==
  IF i = 1 THEN 0
  ELSE FenFile(chars, i - 1)
         + (IF DigitVal(chars[i - 1]) > 0 THEN DigitVal(chars[i - 1]) ELSE 1)

\* The (square, piece) pairs of the board field: rank 7 first, a "/" starts
\* the next rank at file 0, a digit skips files, a letter places a piece.
FenPlacements(chars) ==
  LET n == Len(chars)
      slashes == { i \in 1..n : chars[i] = "/" }
      rankOf(i) == 7 - Cardinality({ j \in slashes : j < i })
      startOf(i) == IF { j \in slashes : j < i } = {} THEN 1
                    ELSE 1 + CHOOSE j \in slashes :
                           /\ j < i
                           /\ \A k \in slashes : k < i => k <= j
      letters == { i \in 1..n : chars[i] # "/" /\ DigitVal(chars[i]) = 0 }
  IN { << MkSq(FenFile(SubSeq(chars, startOf(i), i), i - startOf(i) + 1),
               rankOf(i)),
          FenPiece(chars[i]) >> : i \in letters }

\* place() applied for every pair of a set of (square, piece) pairs on
\* distinct squares.
PlaceAll(pos, placements) ==
  LET at(sq) == CHOOSE pl \in placements : pl[1] = sq
      sqs == { pl[1] : pl \in placements }
  IN [pos EXCEPT
        !.bb = Evaluated([i \in 1..6 |->
                  pos.bb[i] \cup { pl[1] : pl \in
                     { q \in placements : piece_type(q[2]) + 1 = i } }]),
        !.bb_color = Evaluated([i \in 1..2 |->
                  pos.bb_color[i] \cup { pl[1] : pl \in
                     { q \in placements : piece_color(q[2]) + 1 = i } }]),
        !.pieces = Evaluated([sq \in Squares |->
                  IF sq \in sqs THEN at(sq)[2] ELSE pos.pieces[sq]])]

FenCastling(chars) ==
  { IF chars[i] = "K" THEN WHITE_KING_SIDE
    ELSE IF chars[i] = "Q" THEN WHITE_QUEEN_SIDE
    ELSE IF chars[i] = "k" THEN BLACK_KING_SIDE
    ELSE BLACK_QUEEN_SIDE :
      i \in { j \in 1..Len(chars) : chars[j] \in {"K", "Q", "k", "q"} } }

from_fen(fen) ==
  [ PlaceAll(PositionNew, FenPlacements(fen.board)) EXCEPT
      !.stm = IF fen.stm = "w" THEN White ELSE Black,
      !.castling_rights = FenCastling(fen.castling),
      !.enpassant = fen.ep,
      !.halfm = fen.halfm,
      !.fullm = fen.fullm ]


(***************************************************************************)
(* Fixed-width integers and bytes                                          *)
(***************************************************************************)
POW2 == [i \in 0..16 |-> Pow2(i)]

WrapU8(x) == x % 256
WrapU16(x) == x % 65536
WrapI16(x) == ((x + 32768) % 65536) - 32768
InI16(x) == x >= -32768 /\ x <= 32767

Shl8(x, k) == (x * POW2[k]) % 256
Shr(x, k) == x \div POW2[k]
BitAt(x, i) == (x \div POW2[i]) % 2
OrBit(a, b) == IF a + b > 0 THEN 1 ELSE 0
\* a | b on 16-bit values
BitOr(a, b) ==
  SumSeq([i \in 1..16 |->
            OrBit(BitAt(a, i - 1), BitAt(b, i - 1)) * POW2[i - 1]])

\* Whether the build checks arithmetic overflow (a debug build panics on
\* overflow, a release build wraps).
VARIABLE overflow_checks

(***************************************************************************)
(* arithmetic: zig-zag and bit widths                                      *)
(***************************************************************************)
\* x >= 0 -> 2x, x < 0 -> -2x - 1, on 16 bits
signed_to_unsigned(x) == IF x >= 0 THEN WrapU16(2 * x) ELSE WrapU16(-2 * x - 1)
unsigned_to_signed(u) == IF u % 2 = 0 THEN u \div 2 ELSE -((u + 1) \div 2)

\* 0 if n <= 1, else ceil(log2(n))
used_bits_safe(n) ==
  IF n <= 1 THEN 0 ELSE SetMin({ k \in 1..16 : POW2[k] >= n })

(***************************************************************************)
(* writer/move_score_list.rs: PackedMoveScoreList                          *)
(***************************************************************************)
SCORE_VLE_BLOCK_SIZE == 4

PackedMoveScoreListNew ==
  [num_plies |-> 0, movetext |-> << >>, bits_left |-> 0, last_score |-> 0,
   panic |-> FALSE]

\* -e.score on an i16
NegI16(x) == WrapI16(-x)
NegOverflows(x) == x = -32768

movelist_clear(ml, e) ==
  IF overflow_checks /\ NegOverflows(e.score)
  THEN [num_plies |-> 0, movetext |-> << >>, bits_left |-> 0,
        last_score |-> ml.last_score, panic |-> TRUE]
  ELSE [num_plies |-> 0, movetext |-> << >>, bits_left |-> 0,
        last_score |-> NegI16(e.score), panic |-> ml.panic]

SetLast(seq, v) == [seq EXCEPT ![Len(seq)] = v]

add_bits_le8(ml, bits, count) ==
  IF count = 0 THEN ml
  ELSE IF ml.bits_left = 0
  THEN [ml EXCEPT !.movetext = Append(@, Shl8(bits, 8 - count)),
                  !.bits_left = 8 - count]
  ELSE IF count <= ml.bits_left
  THEN [ml EXCEPT
          !.movetext = SetLast(@, BitOr(@[Len(@)],
                                        Shl8(bits, ml.bits_left - count))),
          !.bits_left = @ - count]
  ELSE LET spill_count == count - ml.bits_left
       IN [ml EXCEPT
             !.movetext =
               Append(SetLast(@, BitOr(@[Len(@)], Shr(bits, spill_count))),
                      Shl8(bits, 8 - spill_count)),
             !.bits_left = @ + 8 - count]

RECURSIVE add_bits_vle16(_, _, _)
add_bits_vle16(ml, v, block_size) ==
  LET mask == POW2[block_size] - 1
      block == WrapU8(BitOr(v % POW2[block_size],
                            (IF v > mask THEN 1 ELSE 0) * POW2[block_size]))
      v2 == Shr(v, block_size)
      Rest(ml2) == IF v2 = 0 THEN ml2 ELSE add_bits_vle16(ml2, v2, block_size)
  IN Rest(add_bits_le8(ml, block, block_size + 1))

\* Rank::last_pawn_rank: the rank from which a pawn of the colour promotes.
last_pawn_rank(c) == IF c = White THEN 6 ELSE 1

\* Bitboard::from_before(index) & bb, counted.
CountBefore(bb, index) == Cardinality({ sq \in bb : sq < index })

\* The destination set of the pawn of the side to move on `from`, as
\* add_move_score computes it.
PawnDestinations(pos, from) ==
  LET stm_ == pos.stm
      our_pieces == pieces_bb(pos, stm_)
      their_pieces == pieces_bb(pos, Opp(stm_))
      occ == our_pieces \cup their_pieces
      start_rank == last_pawn_rank(Opp(stm_))
      forward == IF stm_ = White THEN 8 ELSE -8
      attack_targets ==
        their_pieces \cup (IF pos.enpassant # SQ_NONE THEN {pos.enpassant}
                           ELSE {})
      sq_forward == from + forward
  IN (pawn(stm_, from) \cap attack_targets)
       \cup (IF sq_forward \notin occ
             THEN {sq_forward}
                    \cup (IF RankOf(from) = start_rank
                             /\ (sq_forward + forward) \notin occ
                          THEN {sq_forward + forward} ELSE {})
             ELSE {})

\* The piece_id, move_id and num_moves of a move, with whether computing
\* them overflowed.
MoveIndex(pos, mv) ==
  LET stm_ == pos.stm
      our_pieces == pieces_bb(pos, stm_)
      occ == our_pieces \cup pieces_bb(pos, Opp(stm_))
      piece_id == WrapU8(CountBefore(our_pieces, mv.from))
      pt == piece_type(piece_at(pos, mv.from))
  IN CASE pt = Pawn ->
          LET destinations == PawnDestinations(pos, mv.from)
              id == CountBefore(destinations, mv.to)
              n == Cardinality(destinations)
              promotion_index == piece_type(mv.promoted_piece) - Knight
          IN IF RankOf(mv.from) = last_pawn_rank(stm_)
             THEN [piece_id |-> piece_id,
                   move_id |-> (id * 4 + promotion_index) % 256,
                   num_moves |-> n * 4,
                   overflow |-> promotion_index < 0]
             ELSE [piece_id |-> piece_id, move_id |-> id, num_moves |-> n,
                   overflow |-> FALSE]
       [] pt = King ->
          LET our_mask == IF stm_ = White THEN CR_WHITE ELSE CR_BLACK
              castling_rights == pos.castling_rights
              attacks == king(mv.from) \ our_pieces
              attacks_size == Cardinality(attacks)
              num_castling_rights == Cardinality(castling_rights \cap our_mask)
              long == IF stm_ = White THEN WHITE_QUEEN_SIDE
                      ELSE BLACK_QUEEN_SIDE
              castle_id ==
                (attacks_size - 1)
                  + (IF long \in castling_rights THEN 1 ELSE 0)
                  + (IF IsShortCastle(mv) THEN 1 ELSE 0)
          IN IF mv.mtype = Castle
             THEN [piece_id |-> piece_id,
                   move_id |-> castle_id % 256,
                   num_moves |-> attacks_size + num_castling_rights,
                   overflow |-> attacks_size = 0]
             ELSE [piece_id |-> piece_id,
                   move_id |-> CountBefore(attacks, mv.to),
                   num_moves |-> attacks_size + num_castling_rights,
                   overflow |-> FALSE]
       [] OTHER ->
          LET attacks == piece_attacks(pt, mv.from, occ) \ our_pieces
          IN [piece_id |-> piece_id,
              move_id |-> CountBefore(attacks, mv.to),
              num_moves |-> Cardinality(attacks),
              overflow |-> FALSE]

\* A panic leaves the list as it is at the panicking statement, with `panic`
\* set.
add_move_score(ml, pos, mv, score) ==
  LET num_pieces == Cardinality(pieces_bb(pos, pos.stm))
      delta == score - ml.last_score
      score_delta == signed_to_unsigned(WrapI16(delta))
      \* after the score is written: last_score and num_plies
      Counted(m3) ==
        IF overflow_checks /\ NegOverflows(score)
        THEN [m3 EXCEPT !.panic = TRUE]
        ELSE IF overflow_checks /\ ml.num_plies = 65535
        THEN [m3 EXCEPT !.last_score = NegI16(score), !.panic = TRUE]
        ELSE [m3 EXCEPT !.last_score = NegI16(score),
                        !.num_plies = WrapU16(@ + 1)]
      \* after the move is written: the score delta
      Scored(m2) ==
        IF overflow_checks /\ ~InI16(delta) THEN [m2 EXCEPT !.panic = TRUE]
        ELSE Counted(add_bits_vle16(m2, score_delta, SCORE_VLE_BLOCK_SIZE))
      Indexed(ix) ==
        IF overflow_checks /\ ix.overflow THEN [ml EXCEPT !.panic = TRUE]
        ELSE Scored(add_bits_le8(
                      add_bits_le8(ml, ix.piece_id,
                                   used_bits_safe(num_pieces)),
                      WrapU8(ix.move_id), used_bits_safe(ix.num_moves)))
  IN Indexed(MoveIndex(pos, mv))

(***************************************************************************)
(* reader/bitreader.rs: BitReader over the bytes at data_ptr               *)
(***************************************************************************)
BitReaderNew == [read_bits_left |-> 8, read_offset |-> 0, oob |-> FALSE]

\* *data_ptr.add(i): the byte at i; a read past the end of the buffer is
\* recorded in `oob`.
ByteAt(data, i) == IF i < Len(data) THEN data[i + 1] ELSE 0

\* Returns the reader after the read and the bits read.
extract_bits_le8(br, data, count) ==
  IF count = 0 THEN [bits |-> 0, br |-> br]
  ELSE LET b0 == IF br.read_bits_left = 0
                 THEN [br EXCEPT !.read_offset = @ + 1, !.read_bits_left = 8]
                 ELSE br
           byte == Shl8(ByteAt(data, b0.read_offset), 8 - b0.read_bits_left)
           bits == Shr(byte, 8 - count)
           spills == count > b0.read_bits_left
           spill_count == count - b0.read_bits_left
           bits2 == IF spills
                    THEN BitOr(bits, Shr(ByteAt(data, b0.read_offset + 1),
                                         8 - spill_count))
                    ELSE bits
           b1 == IF spills
                 THEN [b0 EXCEPT !.read_bits_left = @ + 8 - count,
                                 !.read_offset = @ + 1]
                 ELSE [b0 EXCEPT !.read_bits_left = @ - count]
       IN [bits |-> bits2,
           br |-> [b1 EXCEPT !.oob = @ \/ b1.read_offset >= Len(data)]]

\* The loop of extract_vle16 from `offset` on; `overflow` records a shift
\* of the u16 by 16 or more.
RECURSIVE extract_vle16_from(_, _, _, _, _, _)
extract_vle16_from(br, data, block_size, v, offset, overflow) ==
  LET o2 == overflow \/ offset >= 16
      Block(r, v2) ==
        IF Shr(r.bits, block_size) = 0
        THEN [v |-> v2, overflow |-> o2, br |-> r.br]
        ELSE extract_vle16_from(r.br, data, block_size, v2,
                                offset + block_size, o2)
      Read(r) ==
        Block(r, BitOr(v, WrapU16((r.bits % POW2[block_size])
                                    * POW2[offset % 16])))
  IN Read(extract_bits_le8(br, data, block_size + 1))

\* extract_vle16 that reads one block and ignores the continuation bit.
extract_vle16_one_block(br, data, block_size) ==
  LET Read(r) == [v |-> r.bits % POW2[block_size], overflow |-> FALSE,
                  br |-> r.br]
  IN Read(extract_bits_le8(br, data, block_size + 1))

extract_vle16(br, data, block_size) ==
  extract_vle16_from(br, data, block_size, 0, 0, FALSE)

\* num_read_bytes that does not count the byte read in part.
num_read_bytes_whole_only(br) == br.read_offset

num_read_bytes(br) == br.read_offset + (IF br.read_bits_left # 8 THEN 1 ELSE 0)


(***************************************************************************)
(* compressed_position.rs: CompressedPosition (24 bytes)                   *)
(***************************************************************************)
\* The occupancy bitboard of the 8 big-endian bytes data[1..8].
cpos_occupied(data) ==
  { sq \in Squares : BitAt(data[8 - (sq \div 8)], sq % 8) = 1 }

\* The k-th nibble (from 0) of packed_state = data[9..24], low nibble first.
NibbleAt(data, k) ==
  LET b == data[9 + (k \div 2)] IN IF k % 2 = 0 THEN b % 16 ELSE b \div 16

decompress(data) ==
  LET occ == cpos_occupied(data)
      placed == { sq \in occ : CountBefore(occ, sq) < 32 }
      nib == [sq \in placed |-> NibbleAt(data, CountBefore(occ, sq))]
      pieceOf(sq) ==
        CASE nib[sq] <= 11 -> nib[sq]
          [] nib[sq] = 12 -> IF RankOf(sq) = 3 THEN MkPiece(Pawn, White)
                             ELSE MkPiece(Pawn, Black)
          [] nib[sq] = 13 -> MkPiece(Rook, White)
          [] nib[sq] = 14 -> MkPiece(Rook, Black)
          [] OTHER -> MkPiece(King, Black)
      eps == { sq \in placed : nib[sq] = 12 }
      lastEp == CHOOSE sq \in eps : \A q \in eps : q <= sq
      rights ==
        { IF sq = A1 THEN WHITE_QUEEN_SIDE ELSE WHITE_KING_SIDE :
            sq \in { q \in placed : nib[q] = 13 } }
        \cup { IF sq = A8 THEN BLACK_QUEEN_SIDE ELSE BLACK_KING_SIDE :
                 sq \in { q \in placed : nib[q] = 14 } }
  IN [ PlaceAll(PositionNew, { <<sq, pieceOf(sq)>> : sq \in placed }) EXCEPT
         !.castling_rights = rights,
         !.enpassant = IF eps = {} THEN SQ_NONE
                       ELSE IF RankOf(lastEp) = 3 THEN lastEp - 8
                       ELSE lastEp + 8,
         !.stm = IF \E sq \in placed : nib[sq] = 15 THEN Black ELSE White ]

\* The nibble CompressedPosition::compress stores for the piece on sq.
CompressNibble(pos, sq) ==
  LET pc == piece_at(pos, sq)
      ep == pos.enpassant
  IN CASE pc = MkPiece(Pawn, White) /\ RankOf(sq) = 3 /\ ep = sq - 8 -> 12
       [] pc = MkPiece(Pawn, Black) /\ RankOf(sq) = 4 /\ ep = sq + 8 -> 12
       [] pc = MkPiece(Rook, White)
            /\ (\/ sq = A1 /\ WHITE_QUEEN_SIDE \in pos.castling_rights
                \/ sq = H1 /\ WHITE_KING_SIDE \in pos.castling_rights) -> 13
       [] pc = MkPiece(Rook, Black)
            /\ (\/ sq = A8 /\ BLACK_QUEEN_SIDE \in pos.castling_rights
                \/ sq = H8 /\ BLACK_KING_SIDE \in pos.castling_rights) -> 14
       [] pc = MkPiece(King, Black) /\ pos.stm = Black -> 15
       [] OTHER -> pc

\* CompressedPosition::compress followed by the big-endian write: 24 bytes.
compress(pos) ==
  LET occ == occupied(pos)
      sqs == SortedSeq(occ)
      nibble(k) == IF k < Len(sqs) THEN CompressNibble(pos, sqs[k + 1]) ELSE 0
      occByte(i) ==
        LET r == 8 - i
            bit(f) == IF MkSq(f, r) \in occ THEN POW2[f] ELSE 0
        IN bit(0) + bit(1) + bit(2) + bit(3) + bit(4) + bit(5) + bit(6)
             + bit(7)
  IN [i \in 1..24 |->
        IF i <= 8 THEN occByte(i)
        ELSE nibble(2 * (i - 9)) + 16 * nibble(2 * (i - 9) + 1)]

(***************************************************************************)
(* compressed_move.rs: CompressedMove (2 bytes)                            *)
(***************************************************************************)
\* type << 14 | from << 8 | to << 2 | (promotion piece type - Knight)
compress_move(mv) ==
  LET w == (mv.mtype * 16384 + (mv.from % 64) * 256 + (mv.to % 64) * 4
              + (IF mv.mtype = Promotion
                 THEN (piece_type(mv.promoted_piece) - Knight) % 4 ELSE 0))
  IN << w \div 256, w % 256 >>

decompress_move(b) ==
  LET w == b[1] * 256 + b[2]
      mtype == w \div 16384
      from == (w \div 256) % 64
      to == (w \div 4) % 64
      color == IF RankOf(to) = 0 THEN Black ELSE White
  IN MkMove(from, to, mtype,
            IF mtype = Promotion THEN MkPiece(Knight + (w % 4), color)
            ELSE PIECE_NONE)

(***************************************************************************)
(* entry.rs: TrainingDataEntry and the 32-byte stem                        *)
(***************************************************************************)
TrainingDataEntry(pos, mv, score, ply, result) ==
  [mv |-> mv, pos |-> pos, ply |-> ply, score |-> score, result |-> result]

U16BE(w) == << w \div 256, w % 256 >>
read_u16_be(data, offset) == data[offset + 1] * 256 + data[offset + 2]

\* unpack_entry with the score read as a two's-complement int16.
unpack_entry_score_int16(data) ==
  LET pos0 == decompress(SubSeq(data, 1, 24))
      mv == decompress_move(SubSeq(data, 25, 26))
      score == IF read_u16_be(data, 26) >= 32768
               THEN read_u16_be(data, 26) - 65536
               ELSE read_u16_be(data, 26)
      pr == read_u16_be(data, 28)
      ply == pr % 16384
      result == unsigned_to_signed(pr \div 16384)
      pos == set_rule50_counter(set_ply(pos0, ply), read_u16_be(data, 30))
  IN TrainingDataEntry(pos, mv, score, ply, result)

\* unpack_entry with the result read as the top two bits less one.
unpack_entry_result_offset(data) ==
  LET pos0 == decompress(SubSeq(data, 1, 24))
      mv == decompress_move(SubSeq(data, 25, 26))
      score == unsigned_to_signed(read_u16_be(data, 26))
      pr == read_u16_be(data, 28)
      ply == pr % 16384
      result == (pr \div 16384) - 1
      pos == set_rule50_counter(set_ply(pos0, ply), read_u16_be(data, 30))
  IN TrainingDataEntry(pos, mv, score, ply, result)

unpack_entry(data) ==
  LET pos0 == decompress(SubSeq(data, 1, 24))
      mv == decompress_move(SubSeq(data, 25, 26))
      score == unsigned_to_signed(read_u16_be(data, 26))
      pr == read_u16_be(data, 28)
      ply == pr % 16384
      result == unsigned_to_signed(pr \div 16384)
      pos == set_rule50_counter(set_ply(pos0, ply), read_u16_be(data, 30))
  IN TrainingDataEntry(pos, mv, score, ply, result)

\* PackedTrainingDataEntry::from_entry: the bytes unpack_entry reads back.
from_entry(e) ==
  compress(e.pos) \o compress_move(e.mv)
    \o U16BE(signed_to_unsigned(e.score))
    \o U16BE((e.ply % 16384) + (signed_to_unsigned(e.result) % 4) * 16384)
    \o U16BE(rule50_counter(e.pos))

\* TrainingDataEntry::is_continuation: self -> next
is_continuation(a, b) ==
  /\ b.result = a.result
  /\ b.ply = WrapU16(a.ply + 1)
  /\ b.pos = after_move(a.pos, a.mv)


(***************************************************************************)
(* reader/move_score_list_reader.rs: PackedMoveScoreListReader             *)
(***************************************************************************)
\* The k-th (from 0) square of a bitboard in ascending order.
NthSquare(bb, k) ==
  IF k < Cardinality(bb) THEN SortedSeq(bb)[k + 1] ELSE SQ_NONE

\* movetext is the chunk from the byte after the count on.
PackedMoveScoreListReaderNew(entry, movetext, num_plies) ==
  [num_plies |-> num_plies, movetext |-> movetext,
   last_score |-> NegI16(entry.score),
   panic |-> overflow_checks /\ NegOverflows(entry.score),
   br |-> BitReaderNew, last_entry |-> entry, num_read |-> 0]

reader_has_next(mr) == mr.num_read < mr.num_plies

\* Decodes the move of the piece on `from`: the inverse of MoveIndex.
DecodeMove(pos, from, br, data) ==
  LET stm_ == pos.stm
      our_pieces == pieces_bb(pos, stm_)
      occ == our_pieces \cup pieces_bb(pos, Opp(stm_))
      pt == piece_type(piece_at(pos, from))
  IN CASE pt = Pawn ->
          LET promo == RankOf(from) = last_pawn_rank(stm_)
              Read(destinations, r) ==
                LET to == NthSquare(destinations,
                                    IF promo THEN r.bits \div 4 ELSE r.bits)
                IN [mv |-> IF promo
                           THEN MovePromotion(
                                  from, to,
                                  MkPiece(Knight + (r.bits % 4), stm_))
                           ELSE IF to = pos.enpassant
                           THEN MoveEnPassant(from, to)
                           ELSE MoveNormal(from, to),
                    br |-> r.br]
              Among(destinations) ==
                LET n == Cardinality(destinations)
                IN Read(destinations,
                        extract_bits_le8(
                          br, data,
                          used_bits_safe(IF promo THEN n * 4 ELSE n)))
          IN Among(PawnDestinations(pos, from))
       [] pt = King ->
          LET our_mask == IF stm_ = White THEN CR_WHITE ELSE CR_BLACK
              attacks == king(from) \ our_pieces
              attacks_size == Cardinality(attacks)
              num_castling_rights ==
                Cardinality(pos.castling_rights \cap our_mask)
              long == IF stm_ = White THEN WHITE_QUEEN_SIDE
                      ELSE BLACK_QUEEN_SIDE
              Read(r) ==
                LET idx == r.bits - attacks_size
                    isLong == idx = 0 /\ long \in pos.castling_rights
                    rookSq == IF stm_ = White
                              THEN (IF isLong THEN A1 ELSE H1)
                              ELSE (IF isLong THEN A8 ELSE H8)
                IN [mv |-> IF r.bits < attacks_size
                           THEN MoveNormal(from, NthSquare(attacks, r.bits))
                           ELSE MoveCastle(from, rookSq),
                    br |-> r.br]
          IN Read(extract_bits_le8(
                    br, data,
                    used_bits_safe(attacks_size + num_castling_rights)))
       [] OTHER ->
          LET Read(attacks, r) ==
                [mv |-> MoveNormal(from, NthSquare(attacks, r.bits)),
                 br |-> r.br]
              Among(attacks) ==
                Read(attacks,
                     extract_bits_le8(br, data,
                                      used_bits_safe(Cardinality(attacks))))
          IN Among(piece_attacks(pt, from, occ) \ our_pieces)

\* Returns the reader after the ply and the entry decoded.
next_entry(mr) ==
  LET last == mr.last_entry
      \* the score delta r3 read after the move d
      Scored(pos, d, r3) ==
        LET sum == mr.last_score + unsigned_to_signed(r3.v)
            score == WrapI16(sum)
            entry == TrainingDataEntry(pos, d.mv, score,
                                       WrapU16(last.ply + 1), last.result)
        IN [entry |-> entry,
            mr |-> [mr EXCEPT
                      !.last_entry = entry,
                      !.num_read = @ + 1,
                      !.br = r3.br,
                      !.last_score = NegI16(score),
                      !.panic = @ \/ (overflow_checks
                                        /\ (\/ ~InI16(sum)
                                            \/ NegOverflows(score)
                                            \/ r3.overflow))]]
      Moved(pos, d) ==
        Scored(pos, d, extract_vle16(d.br, mr.movetext, SCORE_VLE_BLOCK_SIZE))
      \* the piece index r1 read in the position the last move leads to
      Picked(pos, r1) ==
        Moved(pos, DecodeMove(pos, NthSquare(pieces_bb(pos, pos.stm), r1.bits),
                              r1.br, mr.movetext))
      From(pos) ==
        Picked(pos,
               extract_bits_le8(
                 mr.br, mr.movetext,
                 used_bits_safe(Cardinality(pieces_bb(pos, pos.stm)))))
  IN From(after_move(last.pos, last.mv))

(***************************************************************************)
(* compressed_training_file.rs: CompressedTrainingDataFile                 *)
(***************************************************************************)
\* "BINP"
MAGIC == << 66, 73, 78, 80 >>

U32LE(n) ==
  << n % 256, (n \div 256) % 256, (n \div 65536) % 256, n \div 16777216 >>

\* A chunk header: the magic and the little-endian length.
ChunkHeader(len) == MAGIC \o U32LE(len)

append(file, data) == file \o ChunkHeader(Len(data)) \o data

has_next_chunk(file, read_pos) == read_pos < Len(file)

\* Reads the chunk whose header starts at read_pos (bytes from 0): an error
\* if the header is cut short, the magic is not BINP or the declared length
\* exceeds the bytes available.
read_next_chunk(file, read_pos) ==
  LET avail == Len(file) - read_pos
      len == file[read_pos + 5] + file[read_pos + 6] * 256
               + file[read_pos + 7] * 65536
               + (file[read_pos + 8] % 128) * 16777216
  IN IF avail < 8 THEN [ok |-> FALSE, read_pos |-> read_pos, chunk |-> << >>]
     ELSE IF SubSeq(file, read_pos + 1, read_pos + 4) # MAGIC
          \/ file[read_pos + 8] >= 128
          \/ len > avail - 8
     THEN [ok |-> FALSE, read_pos |-> read_pos, chunk |-> << >>]
     ELSE [ok |-> TRUE,
           read_pos |-> read_pos + 8 + len,
           chunk |-> SubSeq(file, read_pos + 9, read_pos + 8 + len)]


(***************************************************************************)
(* writer/compressed_writer.rs: CompressedTrainingDataEntryWriter          *)
(***************************************************************************)
KI_B == 1024
MAX_MOVELIST_SIZE == 10 * KI_B

\* The chunk target.  The source sets it to 1 MiB; the model scales it down
\* so that chunks fill up after a few entries.
ChunkTarget == 35
SUGGESTED_CHUNK_SIZE == ChunkTarget

\* The length of packed_entries.
PackedCapacity == SUGGESTED_CHUNK_SIZE + MAX_MOVELIST_SIZE

\* packed_entries holds the bytes packed_entries[..packed_size].
CompressedTrainingDataEntryWriterNew ==
  [panic |-> FALSE,
   last_entry |-> TrainingDataEntry(PositionNew, MoveNull, 0, 65535, 32767),
   movelist |-> PackedMoveScoreListNew,
   packed_size |-> 0,
   packed_entries |-> << >>,
   is_first |-> TRUE]

\* A write past the end of packed_entries panics.
write_movelist(w) ==
  LET count == U16BE(w.movelist.num_plies)
      movetext == IF w.movelist.num_plies > 0 THEN w.movelist.movetext
                  ELSE << >>
  IN IF w.packed_size + 2 > PackedCapacity THEN [w EXCEPT !.panic = TRUE]
     ELSE IF w.packed_size + 2 + Len(movetext) > PackedCapacity
     THEN [w EXCEPT !.packed_entries = @ \o count,
                    !.packed_size = @ + 2,
                    !.panic = TRUE]
     ELSE [w EXCEPT !.packed_entries = @ \o count \o movetext,
                    !.packed_size = @ + 2 + Len(movetext)]

\* The non-continuation branch of write_entry from the chunk test on.
WriteStem(w0, file, entry) ==
  LET emit == w0.packed_size >= SUGGESTED_CHUNK_SIZE
      file1 == IF emit THEN append(file, w0.packed_entries) ELSE file
      w1 == IF emit THEN [w0 EXCEPT !.packed_size = 0,
                                    !.packed_entries = << >>]
            ELSE w0
      ml == movelist_clear(w1.movelist, entry)
  IN IF w1.packed_size + 32 > PackedCapacity
     THEN [w |-> [w1 EXCEPT !.panic = TRUE], file |-> file1]
     ELSE [w |-> [w1 EXCEPT
                    !.packed_entries = @ \o from_entry(entry),
                    !.packed_size = @ + 32,
                    !.movelist = ml,
                    !.is_first = IF ml.panic THEN @ ELSE FALSE,
                    !.last_entry = IF ml.panic THEN @ ELSE entry,
                    !.panic = ml.panic],
           file |-> file1]

\* write_entry without the is_first test: the count of a chain is written
\* before the first stem too.
write_entry_without_is_first(w, file, entry) ==
  IF is_continuation(w.last_entry, entry)
  THEN LET Added(ml) ==
             [w |-> [w EXCEPT !.movelist = ml,
                              !.last_entry = IF ml.panic THEN @ ELSE entry,
                              !.panic = ml.panic],
              file |-> file]
       IN Added(add_move_score(w.movelist, entry.pos, entry.mv, entry.score))
  ELSE LET Stem(w0) ==
             IF w0.panic THEN [w |-> w0, file |-> file]
             ELSE WriteStem(w0, file, entry)
       IN Stem(write_movelist(w))

\* Returns the writer and the file after the call; w.panic tells whether the
\* call panicked.
write_entry(w, file, entry) ==
  IF is_continuation(w.last_entry, entry)
  THEN LET Added(ml) ==
             [w |-> [w EXCEPT !.movelist = ml,
                              !.last_entry = IF ml.panic THEN @ ELSE entry,
                              !.panic = ml.panic],
              file |-> file]
       IN Added(add_move_score(w.movelist, entry.pos, entry.mv, entry.score))
  ELSE LET Stem(w0) ==
             IF w0.panic THEN [w |-> w0, file |-> file]
             ELSE WriteStem(w0, file, entry)
       IN Stem(IF ~w.is_first THEN write_movelist(w) ELSE w)

flush(w, file) ==
  IF w.packed_size > 0
  THEN LET w0 == IF ~w.is_first THEN write_movelist(w) ELSE w
       IN IF w0.panic THEN [w |-> w0, file |-> file]
          ELSE [w |-> [w0 EXCEPT !.packed_size = 0, !.packed_entries = << >>],
                file |-> append(file, w0.packed_entries)]
  ELSE [w |-> w, file |-> file]

(***************************************************************************)
(* reader/compressed_reader.rs: CompressedTrainingDataEntryReader          *)
(***************************************************************************)
\* The constructor without the has_next_chunk test: the first chunk is read
\* whether or not the file has one.
ReaderNewWithoutEndOfFile(file) ==
  LET r0 == [offset |-> 0, read_pos |-> 0, chunk |-> << >>,
             movelist_reader |-> << >>, is_end |-> FALSE]
      c == read_next_chunk(file, 0)
  IN IF ~c.ok THEN [r |-> r0, status |-> "BinpackError"]
     ELSE [r |-> [r0 EXCEPT !.chunk = c.chunk, !.read_pos = c.read_pos],
           status |-> "Ok"]

\* movelist_reader is << >> for None and a one-element sequence for Some.
\* read_pos is the position of input_file.  status is "Ok", or "EndOfFile" or
\* "BinpackError" for the Err the constructor returns.
CompressedTrainingDataEntryReaderNew(file) ==
  LET r0 == [offset |-> 0, read_pos |-> 0, chunk |-> << >>,
             movelist_reader |-> << >>, is_end |-> FALSE]
      c == read_next_chunk(file, 0)
  IN IF ~has_next_chunk(file, 0)
     THEN [r |-> [r0 EXCEPT !.is_end = TRUE], status |-> "EndOfFile"]
     ELSE IF ~c.ok THEN [r |-> r0, status |-> "BinpackError"]
     ELSE [r |-> [r0 EXCEPT !.chunk = c.chunk, !.read_pos = c.read_pos],
           status |-> "Ok"]

has_next(r) == ~r.is_end

\* is_next_entry_continuation with the test of the chain reader negated.
is_next_entry_continuation_negated(r) ==
  IF r.movelist_reader # << >> THEN ~reader_has_next(r.movelist_reader[1])
  ELSE FALSE

is_next_entry_continuation(r) ==
  IF r.movelist_reader # << >> THEN reader_has_next(r.movelist_reader[1])
  ELSE FALSE

\* Returns the reader and whether read_next_chunk().unwrap() panicked.
fetch_next_chunk_if_needed(r, file) ==
  IF r.offset + 32 + 2 > Len(r.chunk)
  THEN IF has_next_chunk(file, r.read_pos)
       THEN LET c == read_next_chunk(file, r.read_pos)
            IN IF c.ok
               THEN [r |-> [r EXCEPT !.chunk = c.chunk, !.offset = 0,
                                     !.read_pos = c.read_pos],
                     panic |-> FALSE]
               ELSE [r |-> r, panic |-> TRUE]
       ELSE [r |-> [r EXCEPT !.is_end = TRUE], panic |-> FALSE]
  ELSE [r |-> r, panic |-> FALSE]

\* The entry read_entry unpacks at the offset; the caller checks the bounds.
read_entry(r) == unpack_entry(SubSeq(r.chunk, r.offset + 1, r.offset + 32))

read_plies(r) == read_u16_be(r.chunk, r.offset)

\* Whether the chain decoder can run from this entry: the position has one
\* king a side and the move is one the generator emits.  The decoder's
\* behaviour on other input is not defined.
ChainDecodable(e) ==
  /\ Cardinality(pieces_bb_color(e.pos, White, King)) = 1
  /\ Cardinality(pieces_bb_color(e.pos, Black, King)) = 1
  /\ \E m \in { pseudo_legal_moves(e.pos) } :
       \E i \in DOMAIN m : m[i] = e.mv

NoEntry == TrainingDataEntry(PositionNew, MoveNull, 0, 0, 0)

\* outcome is "Ok" when next() returns `entry`, "panic" when it panics and
\* "undefined" when it reads outside the chunk or decodes a chain from a
\* malformed stem.
NextResult(r, entry, outcome) == [r |-> r, entry |-> entry, outcome |-> outcome]

\* NextInChain with the end of the chain taken one ply early.
NextInChainOnePlyEarly(r, file) ==
  LET Fetched(n, f) ==
        NextResult(f.r, n.entry, IF f.panic THEN "panic" ELSE "Ok")
      Decoded(n) ==
        IF n.mr.br.oob \/ n.entry.mv.from = SQ_NONE \/ n.entry.mv.to = SQ_NONE
        THEN NextResult(r, NoEntry, "undefined")
        ELSE IF n.mr.panic THEN NextResult(r, NoEntry, "panic")
        ELSE IF n.mr.num_read + 1 >= n.mr.num_plies
        THEN Fetched(n, fetch_next_chunk_if_needed(
                          [r EXCEPT !.offset = @ + num_read_bytes(n.mr.br),
                                    !.movelist_reader = << >>],
                          file))
        ELSE NextResult([r EXCEPT !.movelist_reader = << n.mr >>], n.entry,
                        "Ok")
  IN Decoded(next_entry(r.movelist_reader[1]))

NextInChain(r, file) ==
  LET Fetched(n, f) ==
        NextResult(f.r, n.entry, IF f.panic THEN "panic" ELSE "Ok")
      Decoded(n) ==
        IF n.mr.br.oob \/ n.entry.mv.from = SQ_NONE \/ n.entry.mv.to = SQ_NONE
        THEN NextResult(r, NoEntry, "undefined")
        ELSE IF n.mr.panic THEN NextResult(r, NoEntry, "panic")
        ELSE IF ~reader_has_next(n.mr)
        THEN Fetched(n, fetch_next_chunk_if_needed(
                          [r EXCEPT !.offset = @ + num_read_bytes(n.mr.br),
                                    !.movelist_reader = << >>],
                          file))
        ELSE NextResult([r EXCEPT !.movelist_reader = << n.mr >>], n.entry,
                        "Ok")
  IN Decoded(next_entry(r.movelist_reader[1]))

NextStem(r, file) ==
  IF r.offset + 32 > Len(r.chunk) THEN NextResult(r, NoEntry, "panic")
  ELSE LET r1 == [r EXCEPT !.offset = @ + 32]
           num_plies == read_plies(r1)
           r2 == [r1 EXCEPT !.offset = @ + 2]
           Fetched(entry, f) ==
             NextResult(f.r, entry, IF f.panic THEN "panic" ELSE "Ok")
           Chain(entry, mr) ==
             IF mr.panic THEN NextResult(r2, NoEntry, "panic")
             ELSE NextResult([r2 EXCEPT !.movelist_reader = << mr >>],
                             entry, "Ok")
           Stem(entry) ==
             IF r1.offset + 2 > Len(r1.chunk)
             THEN NextResult(r1, NoEntry, "panic")
             ELSE IF num_plies > 0
             THEN IF ~ChainDecodable(entry)
                  THEN NextResult(r2, NoEntry, "undefined")
                  ELSE Chain(entry,
                             PackedMoveScoreListReaderNew(
                               entry,
                               SubSeq(r2.chunk, r2.offset + 1, Len(r2.chunk)),
                               num_plies))
             ELSE Fetched(entry, fetch_next_chunk_if_needed(r2, file))
       IN Stem(read_entry(r))

next(r, file) ==
  IF r.movelist_reader # << >> THEN NextInChain(r, file)
  ELSE NextStem(r, file)


(***************************************************************************)
(* The entries the writer is driven with                                   *)
(***************************************************************************)
\* 1q5b/1r5k/4p2p/1b2P1pN/3p4/6PP/1nP3B1/1Q2B1K1 w - - 0 35
FEN_EP1 ==
  [ stm |-> "w",
    halfm |-> 0, fullm |-> 35, ep |-> SQ_NONE,
    board |-> << "1", "q", "5", "b", "/", "1", "r", "5", "k", "/", "4", "p", "2", "p", "/", "1", "b", "2", "P", "1", "p", "N", "/", "3", "p", "4", "/", "6", "P", "P", "/", "1", "n", "P", "3", "B", "1", "/", "1", "Q", "2", "B", "1", "K", "1" >>,
    castling |-> <<  >> ]

\* r3k2r/8/8/8/3p4/8/4P3/R3K2R w KQkq - 0 10
FEN_CASTLE ==
  [ stm |-> "w",
    halfm |-> 0, fullm |-> 10, ep |-> SQ_NONE,
    board |-> << "r", "3", "k", "2", "r", "/", "8", "/", "8", "/", "8", "/", "3", "p", "4", "/", "8", "/", "4", "P", "3", "/", "R", "3", "K", "2", "R" >>,
    castling |-> << "K", "Q", "k", "q" >> ]

\* r3k2r/6P1/8/8/8/8/8/R3K2R w KQkq - 0 20
FEN_PROMO ==
  [ stm |-> "w",
    halfm |-> 0, fullm |-> 20, ep |-> SQ_NONE,
    board |-> << "r", "3", "k", "2", "r", "/", "6", "P", "1", "/", "8", "/", "8", "/", "8", "/", "8", "/", "8", "/", "R", "3", "K", "2", "R" >>,
    castling |-> << "K", "Q", "k", "q" >> ]


\* Three game lines: the position a line starts from, the move played at
\* each ply and the game result.  Line 1 is the chain of
\* test_compressed_writer; line 2 has a double push, the en-passant capture
\* it allows and a short castle; line 3 has a promotion, a long castle and a
\* king move.
LINES ==
  << [moves |-> << MoveNormal(10, 26), MoveNormal(27, 19),
                   MoveNormal(14, 49) >>,
      fen |-> FEN_EP1,
      result |-> 0],
     [moves |-> << MoveNormal(12, 28), MoveEnPassant(27, 20),
                   MoveCastle(E1, H1) >>,
      fen |-> FEN_CASTLE,
      result |-> 1],
     [moves |-> << MovePromotion(54, 62, MkPiece(Knight, White)),
                   MoveCastle(E8, A8), MoveNormal(4, 12) >>,
      fen |-> FEN_PROMO,
      result |-> -1] >>

\* The scores entries carry: an ordinary one and the largest the engine
\* emits.
Scores == { -201, 32002 }
ScoreLow == CHOOSE x \in Scores : \A y \in Scores : x <= y

LineStart(l, score) ==
  LET At(pos) == TrainingDataEntry(pos, LINES[l].moves[1], score,
                                   pos_ply(pos), LINES[l].result)
  IN At(from_fen(LINES[l].fen))

\* The entry that continues `a` with the idx-th move of line l.
Continuation(a, l, idx, score) ==
  TrainingDataEntry(after_move(a.pos, a.mv), LINES[l].moves[idx], score,
                    WrapU16(a.ply + 1), a.result)

\* Entries that differ from the continuation of `a` in the ply, in the
\* result or in the position only.
Variant(a, l, idx, kind) ==
  LET Vary(b) ==
        CASE kind = "ply" -> [b EXCEPT !.ply = WrapU16(a.ply + 2)]
          [] kind = "result" ->
               [b EXCEPT !.result = IF a.result = 0 THEN 1 ELSE 0]
          [] kind = "pos" ->
               [b EXCEPT !.pos = set_rule50_counter(b.pos, b.pos.halfm + 1)]
          [] OTHER -> b
  IN Vary(Continuation(a, l, idx, ScoreLow))

VariantKinds == { "ply", "result", "pos" }


(***************************************************************************)
(* The state machine: a writer is driven with entries and flushed, the     *)
(* file it leaves may be damaged, and a reader reads it back                *)
(***************************************************************************)
\* w, file: the writer and the bytes of its output file
\* wstatus: "open", "panicked" (a call panicked; unwinding drops the writer)
\*          or "closed" (dropped)
\* written: the entries passed to write_entry, in order
\* cursor:  the line and index of the last entry written
\* flushes: the number of explicit flush() calls
\* lastOp:  the last writer operation
\* flushedEarly: whether write_entry was called after a flush()
\* r, rstatus: the reader and "none" (not constructed), "Ok", the
\*          constructor's error, "panic" or "undefined"
\* readOut: the entries next() returned, in order
\* damaged: whether the file was changed after the writer closed it
VARIABLES w, wstatus, file, written, cursor, flushes, lastOp, flushedEarly,
          r, rstatus, readOut, damaged

vars == << overflow_checks, w, wstatus, file, written, cursor, flushes,
           lastOp, flushedEarly, r, rstatus, readOut, damaged >>

MaxEntries == 3
MaxFlushes == 1

ReaderNone ==
  [offset |-> 0, read_pos |-> 0, chunk |-> << >>,
   movelist_reader |-> << >>, is_end |-> FALSE]

Init ==
  /\ overflow_checks \in BOOLEAN
  /\ w = CompressedTrainingDataEntryWriterNew
  /\ wstatus = "open"
  /\ file = << >>
  /\ written = << >>
  /\ cursor = [idx |-> 0, line |-> 0]
  /\ flushes = 0
  /\ lastOp = "new"
  /\ flushedEarly = FALSE
  /\ r = ReaderNone
  /\ rstatus = "none"
  /\ readOut = << >>
  /\ damaged = FALSE

\* writer.write_entry(&entry)
DoWrite(entry, l, idx) ==
  \E res \in { write_entry(w, file, entry) } :
     /\ wstatus = "open"
     /\ Len(written) < MaxEntries
     /\ w' = res.w
     /\ file' = res.file
     /\ wstatus' = IF res.w.panic THEN "panicked" ELSE "open"
     /\ written' = Append(written, entry)
     /\ cursor' = [idx |-> idx, line |-> l]
     /\ lastOp' = "write"
     /\ flushedEarly' = (flushedEarly \/ flushes > 0)
     /\ UNCHANGED << overflow_checks, flushes, r, rstatus, readOut, damaged >>

\* The first entry of a game.
WriteStart == \E l \in DOMAIN LINES : DoWrite(LineStart(l, ScoreLow), l, 1)

\* The entry that continues the last one.
WriteNext ==
  /\ cursor.idx >= 1
  /\ cursor.idx < Len(LINES[cursor.line].moves)
  /\ \E score \in Scores :
       DoWrite(Continuation(w.last_entry, cursor.line, cursor.idx + 1, score),
               cursor.line, cursor.idx + 1)

\* An entry that is almost a continuation of the last one.
WriteVariant ==
  /\ cursor.idx >= 1
  /\ cursor.idx < Len(LINES[cursor.line].moves)
  /\ \E kind \in VariantKinds :
       DoWrite(Variant(w.last_entry, cursor.line, cursor.idx + 1, kind),
               cursor.line, cursor.idx + 1)

\* writer.flush()
Flush ==
  \E res \in { flush(w, file) } :
     /\ wstatus = "open"
     /\ flushes < MaxFlushes
     /\ w' = res.w
     /\ file' = res.file
     /\ wstatus' = IF res.w.panic THEN "panicked" ELSE "open"
     /\ flushes' = flushes + 1
     /\ lastOp' = "flush"
     /\ UNCHANGED << overflow_checks, written, cursor, flushedEarly, r,
                     rstatus, readOut, damaged >>

\* Drop for the writer, at the end of its scope or while a panic unwinds.
Drop ==
  \E res \in { flush([w EXCEPT !.panic = FALSE], file) } :
     /\ wstatus \in { "open", "panicked" }
     /\ w' = [res.w EXCEPT !.panic = w.panic \/ res.w.panic]
     /\ file' = res.file
     /\ wstatus' = "closed"
     /\ lastOp' = "drop"
     /\ UNCHANGED << overflow_checks, written, cursor, flushes, flushedEarly,
                     r, rstatus, readOut, damaged >>

\* The offsets of the chunk headers of a well-framed file, from `pos` on.
RECURSIVE ChunkStarts(_, _)
ChunkStarts(f, pos) ==
  IF pos + 8 > Len(f) THEN << >>
  ELSE << pos >> \o ChunkStarts(f, read_next_chunk(f, pos).read_pos)

\* The ways the file is damaged before it is read: the magic of the k-th
\* chunk overwritten, its declared length raised beyond the file, or a
\* well-framed chunk of n zero bytes, too short for a stem and its count,
\* appended.
MaxDamagedEntries == 2
ShortLengths == { 0, 20, 33 }

DamageMagic(f, k) == [f EXCEPT ![ChunkStarts(f, 0)[k] + 1] = 0]
DamageLength(f, k) == [f EXCEPT ![ChunkStarts(f, 0)[k] + 7] = 1]
AppendShort(f, n) == f \o ChunkHeader(n) \o [i \in 1..n |-> 0]

Damage ==
  /\ wstatus = "closed"
  /\ rstatus = "none"
  /\ ~damaged
  /\ Len(written) <= MaxDamagedEntries
  /\ \/ \E k \in 1..Len(ChunkStarts(file, 0)) : file' = DamageMagic(file, k)
     \/ \E k \in 1..Len(ChunkStarts(file, 0)) : file' = DamageLength(file, k)
     \/ \E n \in ShortLengths : file' = AppendShort(file, n)
  /\ damaged' = TRUE
  /\ UNCHANGED << overflow_checks, w, wstatus, written, cursor, flushes,
                  lastOp, flushedEarly, r, rstatus, readOut >>

\* CompressedTrainingDataEntryReader::new(path)
ReaderNew ==
  \E res \in { CompressedTrainingDataEntryReaderNew(file) } :
     /\ wstatus = "closed"
     /\ rstatus = "none"
     /\ r' = res.r
     /\ rstatus' = res.status
     /\ UNCHANGED << overflow_checks, w, wstatus, file, written, cursor,
                     flushes, lastOp, flushedEarly, readOut, damaged >>

\* while reader.has_next() { reader.next() }
ReaderNext ==
  \E res \in { next(r, file) } :
     /\ rstatus = "Ok"
     /\ has_next(r)
     /\ r' = res.r
     /\ rstatus' = res.outcome
     /\ readOut' = IF res.outcome = "Ok" THEN Append(readOut, res.entry)
                   ELSE readOut
     /\ UNCHANGED << overflow_checks, w, wstatus, file, written, cursor,
                     flushes, lastOp, flushedEarly, damaged >>

Next ==
  \/ WriteStart
  \/ WriteNext
  \/ WriteVariant
  \/ Flush
  \/ Drop
  \/ Damage
  \/ ReaderNew
  \/ ReaderNext

Spec == Init /\ [][Next]_vars


(***************************************************************************)
(* A second state machine over the same state: a game is played from a     *)
(* starting position with moves of pseudo_legal_moves and every entry is   *)
(* passed to write_entry                                                   *)
(***************************************************************************)
\* rnbqkbnr/pppppppp/8/8/8/8/PPPPPPPP/RNBQKBNR w KQkq - 0 1
FEN_START ==
  [ stm |-> "w",
    halfm |-> 0, fullm |-> 1, ep |-> SQ_NONE,
    board |-> << "r", "n", "b", "q", "k", "b", "n", "r", "/", "p", "p",
                 "p", "p", "p", "p", "p", "p", "/", "8", "/", "8", "/",
                 "8", "/", "8", "/", "P", "P", "P", "P", "P", "P", "P",
                 "P", "/", "R", "N", "B", "Q", "K", "B", "N", "R" >>,
    castling |-> << "K", "Q", "k", "q" >> ]

\* 8/8/8/8/k2p3R/8/4P3/4K3 w - - 0 1
FEN_EP_PINNED ==
  [ stm |-> "w",
    halfm |-> 0, fullm |-> 1, ep |-> SQ_NONE,
    board |-> << "8", "/", "8", "/", "8", "/", "8", "/", "k", "2", "p",
                 "3", "R", "/", "8", "/", "4", "P", "3", "/", "4", "K",
                 "3" >>,
    castling |-> <<  >> ]

\* 1r2k3/8/8/8/8/8/3P4/R3K2R b KQ - 0 1
FEN_ROOK_B8 ==
  [ stm |-> "b",
    halfm |-> 0, fullm |-> 1, ep |-> SQ_NONE,
    board |-> << "1", "r", "2", "k", "3", "/", "8", "/", "8", "/", "8",
                 "/", "8", "/", "8", "/", "3", "P", "4", "/", "R", "3",
                 "K", "2", "R" >>,
    castling |-> << "K", "Q" >> ]

\* 4k3/6P1/8/3p1p2/4P3/8/8/4K3 w - - 0 1
FEN_PAWNS ==
  [ stm |-> "w",
    halfm |-> 0, fullm |-> 1, ep |-> SQ_NONE,
    board |-> << "4", "k", "3", "/", "6", "P", "1", "/", "8", "/", "3",
                 "p", "1", "p", "2", "/", "4", "P", "3", "/", "8", "/",
                 "8", "/", "4", "K", "3" >>,
    castling |-> <<  >> ]

\* The starting positions of the games: the start position, the lines'
\* position with castling rights and a pawn that can capture en passant, a
\* position whose en-passant capture would uncover the capturer's king, a
\* position in which a black rook reaches the files of the white castling
\* paths, and a position with pawn pushes, captures and promotions.
GAME_FENS ==
  << FEN_START, FEN_CASTLE, FEN_EP_PINNED, FEN_ROOK_B8, FEN_PAWNS >>

MaxPlies == 2

\* The moves of the generator that do not leave the mover's king attacked.
LegalMoves(pos) ==
  LET Legal(ms) == { m \in { ms[i] : i \in DOMAIN ms } :
                       ~is_checked(after_move(pos, m), pos.stm) }
  IN Legal(pseudo_legal_moves(pos))

\* The first entry of a game: a starting position and a legal move.
GameStart ==
  /\ written = << >>
  /\ \E f \in DOMAIN GAME_FENS :
       \E pos \in { from_fen(GAME_FENS[f]) } :
         \E m \in LegalMoves(pos) :
           DoWrite(TrainingDataEntry(pos, m, 0, pos_ply(pos), 0), f, 1)

\* The next entry of the game: the position the last move leads to and a
\* legal move in it.
GamePlay ==
  /\ cursor.idx >= 1
  /\ Len(written) < MaxPlies
  /\ \E pos \in { after_move(w.last_entry.pos, w.last_entry.mv) } :
       \E m \in LegalMoves(pos) :
         DoWrite(TrainingDataEntry(pos, m, 0, WrapU16(w.last_entry.ply + 1),
                                   w.last_entry.result),
                 cursor.line, cursor.idx + 1)

GameNext ==
  \/ GameStart
  \/ GamePlay

GameSpec == Init /\ [][GameNext]_vars

(***************************************************************************)
(* A third state machine over the same state: a file of one chunk that     *)
(* holds one stem and the count 0 is read                                  *)
(***************************************************************************)
\* The first 24 bytes of the stem of test_packed_training_data_entry (a
\* position with Black to move), the 24 bytes of
\* r3k2r/8/8/8/3p4/8/4P3/R3K2R w KQkq (White to move), the 24 bytes of
\* 4k3/8/8/8/3pP3/8/8/4K3 b - e3 (nibble 12 for the pawn on e4, nibble 15
\* for the black king), and the same bytes with nibble 11 for the black
\* king.
STEM_POSITIONS ==
  { << 98, 121, 192, 21, 24, 76, 241, 100, 100, 106, 0, 4, 8, 48, 2, 17, 17,
       145, 19, 117, 247, 0, 0, 0 >>,
    << 145, 0, 0, 0, 8, 0, 16, 145, 173, 13, 225, 235, 0, 0, 0, 0, 0, 0, 0, 0,
       0, 0, 0, 0 >>,
    << 16, 0, 0, 0, 24, 0, 0, 16, 26, 252, 0, 0, 0, 0, 0, 0, 0, 0, 0, 0,
       0, 0, 0, 0 >>,
    << 16, 0, 0, 0, 24, 0, 0, 16, 26, 188, 0, 0, 0, 0, 0, 0, 0, 0, 0, 0,
       0, 0, 0, 0 >> }

\* 3d e8: the move of the test.
STEM_MOVE == << 61, 232 >>

\* The 16-bit words the stems carry in the score field, in the ply and
\* result field (every value of the top two bits with plies 0, 39 and
\* 2^14 - 1) and in the rule50 field.
STEM_SCORES == { 0, 1, 2, 253, 254, 32767, 32768, 65409, 65534, 65535 }
STEM_PLY_RESULTS ==
  { top * 16384 + ply : top \in 0..3, ply \in { 0, 39, 16383 } }
STEM_RULE50S == { 0, 2, 100, 255, 256, 65535 }

StemBytes(cpos, score, pr, rule50) ==
  cpos \o STEM_MOVE \o U16BE(score) \o U16BE(pr) \o U16BE(rule50)

StemInit ==
  /\ overflow_checks \in BOOLEAN
  /\ w = CompressedTrainingDataEntryWriterNew
  /\ wstatus = "closed"
  /\ \E cpos \in STEM_POSITIONS, score \in STEM_SCORES,
        pr \in STEM_PLY_RESULTS, rule50 \in STEM_RULE50S :
       file = append(<< >>, StemBytes(cpos, score, pr, rule50) \o << 0, 0 >>)
  /\ written = << >>
  /\ cursor = [idx |-> 0, line |-> 0]
  /\ flushes = 0
  /\ lastOp = "new"
  /\ flushedEarly = FALSE
  /\ r = ReaderNone
  /\ rstatus = "none"
  /\ readOut = << >>
  /\ damaged = FALSE

StemNext ==
  \/ ReaderNew
  \/ ReaderNext

StemSpec == StemInit /\ [][StemNext]_vars

(***************************************************************************)
(* Properties                                                              *)
(***************************************************************************)
Last(seq) == seq[Len(seq)]

\* The reader has returned every entry of the file.
ReaderDone == rstatus = "Ok" /\ ~has_next(r)

\* The continuation relation a -> b.
ContRel(a, b) ==
  /\ b.ply = a.ply + 1
  /\ b.result = a.result
  /\ b.pos = do_move(a.pos, a.mv)

\* A legal training entry: a position with one king a side, a move the
\* generator emits that does not leave the mover's king attacked, the ply of
\* the position (below 2^14) and a result of -1, 0 or 1.
LegalEntry(e) ==
  /\ ChainDecodable(e)
  /\ ~is_checked(after_move(e.pos, e.mv), e.pos.stm)
  /\ e.ply = pos_ply(e.pos)
  /\ e.ply < 16384
  /\ e.result \in { -1, 0, 1 }

\* The file a fresh writer leaves when it is given the entries es[i..] and
\* then dropped.
RECURSIVE EncodeFrom(_, _, _, _)
EncodeFrom(es, i, wr, f) ==
  IF i > Len(es) THEN flush(wr, f).file
  ELSE LET res == write_entry(wr, f, es[i])
       IN IF res.w.panic THEN flush([res.w EXCEPT !.panic = FALSE], res.file).file
          ELSE EncodeFrom(es, i + 1, res.w, res.file)

Encode(es) == EncodeFrom(es, 1, CompressedTrainingDataEntryWriterNew, << >>)

\* C1: writing a sequence of legal entries with write_entry, then dropping
\* the writer, and reading the file back to the end yields exactly the
\* entries written, in order.
C1_RoundTrip ==
  (/\ ReaderDone
   /\ ~damaged
   /\ ~flushedEarly
   /\ \A i \in DOMAIN written : LegalEntry(written[i]))
    => readOut = written

\* C2: for a file the writer produced, writing the entries the reader
\* yields from it into a fresh file produces exactly the bytes of the file.
C2_ReencodeIdentical ==
  (ReaderDone /\ ~damaged) => Encode(readOut) = file

\* C3: a next() call with no chain open returns the stem at the offset and
\* opens a chain of the stem's count n when n > 0; a next() call with a chain
\* open, i plies read, returns an entry with ply = stem.ply + (i+1), the
\* stem's result and the previous entry's position after the previous
\* entry's move, and the chain stays open exactly while i + 1 < n: n + 1
\* entries a chain, then the following stem.
C3_ChainEntries ==
  [][(rstatus = "Ok" /\ Len(readOut') = Len(readOut) + 1) =>
       LET e == Last(readOut')
       IN IF r.movelist_reader = << >>
          THEN LET n == read_u16_be(r.chunk, r.offset + 32)
               IN /\ e = unpack_entry(SubSeq(r.chunk, r.offset + 1,
                                             r.offset + 32))
                  /\ (r'.movelist_reader # << >>) = (n > 0)
                  /\ n > 0 => /\ r'.movelist_reader[1].num_plies = n
                              /\ r'.movelist_reader[1].num_read = 0
          ELSE LET mr == r.movelist_reader[1]
                   i == mr.num_read
                   stem == readOut[Len(readOut) - i]
                   prev == Last(readOut)
               IN /\ e.ply = stem.ply + (i + 1)
                  /\ e.result = stem.result
                  /\ e.pos = do_move(prev.pos, prev.mv)
                  /\ (r'.movelist_reader # << >>) = (i + 1 < mr.num_plies)
                  /\ r'.movelist_reader # << >> =>
                       /\ r'.movelist_reader[1].num_plies = mr.num_plies
                       /\ r'.movelist_reader[1].num_read = i + 1]_vars

\* A chain of two plies was read to its end: three entries, the stem and
\* its two continuations.
C3_Witness ==
  /\ ReaderDone
  /\ ~damaged
  /\ Len(readOut) = 3
  /\ ContRel(readOut[1], readOut[2])
  /\ ContRel(readOut[2], readOut[3])
  /\ Len(ChunkStarts(file, 0)) = 1

\* The buffer after the open chain is closed: its count and movetext
\* appended, unless no stem was written yet.
ClosedChain(wr) ==
  IF wr.is_first THEN wr.packed_entries
  ELSE wr.packed_entries \o U16BE(wr.movelist.num_plies)
         \o (IF wr.movelist.num_plies > 0 THEN wr.movelist.movetext
             ELSE << >>)

\* write_entry(b) added a ply to the open chain and no stem.
AppendedToChain(b) ==
  /\ w'.movelist.num_plies = w.movelist.num_plies + 1
  /\ w'.packed_entries = w.packed_entries
  /\ file' = file

\* write_entry(b) closed the open chain and emitted the 32-byte stem of b.
EmittedStem(b) ==
  /\ w'.movelist.num_plies = 0
  /\ \/ /\ file' = file
        /\ w'.packed_entries = ClosedChain(w) \o from_entry(b)
     \/ /\ file' = append(file, ClosedChain(w))
        /\ w'.packed_entries = from_entry(b)

\* C4: write_entry(b) appends b to the open chain only if b continues the
\* previously written entry a (ply + 1, same result, position after a's
\* move); in every other case, the first entry included, it closes the open
\* chain and emits a stem for b.
C4_ContinuationDetection ==
  [][(Len(written') = Len(written) + 1) =>
       LET b == Last(written')
           cont == written # << >> /\ ContRel(Last(written), b)
       IN /\ AppendedToChain(b) => cont
          /\ ~cont => EmittedStem(b)]_vars

\* The third entry differs from the continuation of the second, itself a
\* continuation of the first, in the ply only, and got a stem of its own.
C4_Witness ==
  /\ Len(written) = 3
  /\ wstatus = "open"
  /\ ContRel(written[1], written[2])
  /\ written[3].pos = do_move(written[2].pos, written[2].mv)
  /\ written[3].result = written[2].result
  /\ written[3].ply # written[2].ply + 1
  /\ w.movelist.num_plies = 0
  /\ SubSeq(w.packed_entries, Len(w.packed_entries) - 31,
            Len(w.packed_entries)) = from_entry(written[3])

\* The bytes of the movetext that n plies after `stem` take, or -1 when the
\* movetext ends before them.
RECURSIVE PliesEnd(_)
PliesEnd(mr) ==
  IF mr.br.oob THEN -1
  ELSE IF ~reader_has_next(mr) THEN num_read_bytes(mr.br)
  ELSE PliesEnd(next_entry(mr).mr)

\* Whether the bytes of `chunk` from `offset` on are whole chains: a 32-byte
\* stem, its count n and the bytes of exactly n plies, one after another up
\* to the end of the chunk.
RECURSIVE WholeChains(_, _)
WholeChains(chunk, offset) ==
  IF offset = Len(chunk) THEN TRUE
  ELSE IF offset + 34 > Len(chunk) THEN FALSE
  ELSE LET stem == unpack_entry(SubSeq(chunk, offset + 1, offset + 32))
           n == read_u16_be(chunk, offset + 32)
           mr == PackedMoveScoreListReaderNew(
                   stem, SubSeq(chunk, offset + 35, Len(chunk)), n)
           len == IF n = 0 THEN 0
                  ELSE IF ~ChainDecodable(stem) THEN -1
                  ELSE PliesEnd(mr)
       IN len >= 0 /\ WholeChains(chunk, offset + 34 + len)

\* The payloads of the chunks of a well-framed file.
Chunks(f) ==
  [k \in 1..Len(ChunkStarts(f, 0)) |->
     read_next_chunk(f, ChunkStarts(f, 0)[k]).chunk]

\* C5: in a run of write_entry calls ended by one flush or drop, every chunk
\* in the file is a concatenation of whole chains, and a write_entry call
\* appends a chunk only when its entry does not continue the previous one,
\* the chunk being the buffer with the previous chain closed, of at least
\* the chunk target's length.
C5_WholeChainsPerChunk ==
  /\ [](~flushedEarly /\ ~damaged =>
          \A k \in DOMAIN Chunks(file) : WholeChains(Chunks(file)[k], 0))
  /\ [][(Len(written') = Len(written) + 1 /\ ~flushedEarly' /\ file' # file)
          => /\ ~ContRel(Last(written), Last(written'))
             /\ file' = append(file, ClosedChain(w))
             /\ Len(ClosedChain(w)) >= SUGGESTED_CHUNK_SIZE]_vars

\* The entries a reader returns from the file, up to its end or to the first
\* call that returns none.
RECURSIVE ReadFrom(_, _, _)
ReadFrom(rd, f, acc) ==
  IF ~has_next(rd) THEN acc
  ELSE LET n == next(rd, f)
       IN IF n.outcome # "Ok" THEN acc
          ELSE ReadFrom(n.r, f, Append(acc, n.entry))

ReadAll(f) ==
  LET c == CompressedTrainingDataEntryReaderNew(f)
  IN IF c.status # "Ok" THEN << >> ELSE ReadFrom(c.r, f, << >>)

\* A flush() call, explicit or from the drop of a writer that did not panic,
\* that returned Ok, the entries written so far being legal ones.
FlushReturned ==
  /\ wstatus = "open"
  /\ lastOp' \in { "flush", "drop" }
  /\ flushes' = flushes + 1 \/ wstatus' = "closed"
  /\ ~w'.panic
  /\ \A i \in DOMAIN written : LegalEntry(written[i])

\* C6: after flush() returns Ok the file holds every entry passed to
\* write_entry so far (a reader returns them all) and packed_size is 0, and a flush() that follows a
\* flush() with no write_entry in between appends nothing.
C6_FlushFinalizes ==
  [][FlushReturned =>
       /\ w'.packed_size = 0
       /\ ReadAll(file') = written
       /\ lastOp = "flush" => file' = file]_vars

\* C7: the constructor returns EndOfFile and no reader on a file of zero
\* chunks, and a reader whose has_next() is true on a file whose first chunk
\* is readable.
C7_ConstructorOutcome ==
  [][(rstatus = "none" /\ rstatus' # "none") =>
       /\ file = << >> => rstatus' = "EndOfFile"
       /\ (file # << >> /\ read_next_chunk(file, 0).ok) =>
            (rstatus' = "Ok" /\ has_next(r'))]_vars

\* The constructor returned EndOfFile for the empty file of a writer that
\* was dropped with nothing written.
C7_Witness ==
  /\ file = << >>
  /\ wstatus = "closed"
  /\ rstatus = "EndOfFile"

\* C8: a next() call that is to decode a stem with fewer than 32 bytes left
\* in the chunk reports InvalidFormat to the caller; it returns no entry and
\* does not panic.
C8_ShortStemIsError ==
  [][(/\ rstatus = "Ok"
      /\ has_next(r)
      /\ r.movelist_reader = << >>
      /\ r.offset + 32 > Len(r.chunk)
      /\ rstatus' # rstatus \/ r' # r \/ readOut' # readOut)
       => (rstatus' = "InvalidFormat" /\ readOut' = readOut)]_vars

\* The header at read_pos is cut short, has another magic than BINP or
\* declares more bytes than the file holds.
BadChunkAt(f, pos) == has_next_chunk(f, pos) /\ ~read_next_chunk(f, pos).ok

\* C9: a reader that stopped in front of a chunk with a bad header, be it the
\* first chunk in the constructor or a later one in next() once the current
\* chunk was used up, stopped with the error value.
C9_BadChunkIsError ==
  (/\ rstatus \notin { "none", "Ok" }
   /\ r.movelist_reader = << >>
   /\ r.offset + 34 > Len(r.chunk)
   /\ BadChunkAt(file, r.read_pos))
    => rstatus = "BinpackError"

(***************************************************************************)
(* Properties of the chess rules, over the games of GameSpec               *)
(***************************************************************************)
\* The squares of the first moves named by the scenarios.
SqA2 == MkSq(0, 1)
SqA4 == MkSq(0, 3)
SqE2 == MkSq(4, 1)
SqE3 == MkSq(4, 2)
SqE4 == MkSq(4, 3)

\* The game began in the start position with the move from -> to and the
\* position after that move has been written.
StartedWith(from, to) ==
  /\ Len(written) >= 2
  /\ written[1].pos = from_fen(FEN_START)
  /\ written[1].mv = MoveNormal(from, to)

\* C11: after do_move of e2e4 from the start position ep_square is e3, and
\* after do_move of a2a4 from the start position ep_square is none.
C11_EpAfterFirstMove ==
  /\ StartedWith(SqE2, SqE4) => ep_square(written[2].pos) = SqE3
  /\ StartedWith(SqA2, SqA4) => ep_square(written[2].pos) = SQ_NONE

\* C11 as amended: after do_move of e2e4 from the start position ep_square
\* is none, as it is after a2a4: no black pawn attacks e3 or a3.
C11_EpNoneAfterFirstMove ==
  /\ StartedWith(SqE2, SqE4) => ep_square(written[2].pos) = SQ_NONE
  /\ StartedWith(SqA2, SqA4) => ep_square(written[2].pos) = SQ_NONE

C11_Witness ==
  /\ StartedWith(SqE2, SqE4)
  /\ ep_square(written[2].pos) = SQ_NONE
  /\ piece_at(written[2].pos, SqE4) = MkPiece(Pawn, White)

\* Whether mv is a double push of a pawn in pos.
DoublePush(pos, mv) ==
  /\ piece_type(piece_at(pos, mv.from)) = Pawn
  /\ Abs(mv.to - mv.from) = 16

\* The square a double push passes over.
PassedOver(mv) == (mv.from + mv.to) \div 2

\* The pawns of colour c that attack sq in pos.
PawnsAttacking(pos, c, sq) ==
  { q \in pieces_bb_color(pos, c, Pawn) : sq \in PAWN_ATTACKS[c][q] }

\* Whether, in the position `after` a double push over sq, the pawn on q may
\* capture en passant on sq: the capture played as a move does not leave
\* the capturer's king attacked.
EpCaptureLegal(after, q, sq) ==
  ~is_checked(do_move([after EXCEPT !.enpassant = sq], MoveEnPassant(q, sq)),
              after.stm)

\* The en-passant square the rule gives after mv is played in pos.
EpRule(pos, mv) ==
  LET Of(after) ==
        IF /\ DoublePush(pos, mv)
           /\ \E q \in PawnsAttacking(pos, Opp(pos.stm), PassedOver(mv)) :
                EpCaptureLegal(after, q, PassedOver(mv))
        THEN PassedOver(mv) ELSE SQ_NONE
  IN Of(do_move(pos, mv))

\* C12: after do_move(m), ep_square is the square the pawn passed over if
\* and only if m is a double push of a pawn, an enemy pawn attacks that
\* square and the capture en passant with it would not leave the capturing
\* side's king attacked; otherwise ep_square is none.
C12_EpLegalityFilter ==
  \A i \in DOMAIN written :
    ep_square(do_move(written[i].pos, written[i].mv))
      = EpRule(written[i].pos, written[i].mv)

\* A double push that an enemy pawn may answer en passant, and whose square
\* the next position carries.
C12_Witness ==
  /\ Len(written) >= 2
  /\ DoublePush(written[1].pos, written[1].mv)
  /\ ep_square(written[2].pos) = PassedOver(written[1].mv)

(***************************************************************************)
(* Properties of the stem, over the files of StemSpec                      *)
(***************************************************************************)
\* 1r3rk1/p2qnpb1/6pp/P1p1p3/3nN3/2QP2P1/R3PPBP/2B2RK1 b - - 2 20
FEN_STEM_TEST ==
  [ stm |-> "b",
    halfm |-> 2, fullm |-> 20, ep |-> SQ_NONE,
    board |-> << "1", "r", "3", "r", "k", "1", "/", "p", "2", "q", "n",
                 "p", "b", "1", "/", "6", "p", "p", "/", "P", "1", "p",
                 "1", "p", "3", "/", "3", "n", "N", "3", "/", "2", "Q",
                 "P", "2", "P", "1", "/", "R", "3", "P", "P", "B", "P",
                 "/", "2", "B", "2", "R", "K", "1" >>,
    castling |-> <<  >> ]

\* The 32 bytes of test_packed_training_data_entry.
STEM_TEST ==
  << 98, 121, 192, 21, 24, 76, 241, 100, 100, 106, 0, 4, 8, 48, 2, 17, 17, 145,
     19, 117, 247, 0, 0, 0, 61, 232, 0, 253, 0, 39, 0, 2 >>

\* The stem of the file, the entry decoded from it, and the big-endian
\* 16-bit word at bytes k, k + 1 of the stem.
StemDecoded == rstatus = "Ok" /\ Len(readOut) = 1
FileStem == SubSeq(file, 9, 40)
StemWord(k) == FileStem[k + 1] * 256 + FileStem[k + 2]

\* The inverse of x >= 0 -> 2x, x < 0 -> -2x - 1
ZigZagInverse(u) == IF u % 2 = 0 THEN u \div 2 ELSE -((u + 1) \div 2)
\* The int16 whose two's-complement encoding is u
Int16Of(u) == IF u >= 32768 THEN u - 65536 ELSE u

\* C13: unpack_entry returns the position decompressed from bytes 0..23,
\* the move decompressed from bytes 24..25, the inverse zigzag of the word at
\* bytes 26..27 as score, the low 14 bits of the word at bytes 28..29 as
\* ply and the inverse zigzag of its top 2 bits as result, with the
\* fifty-move counter taken from bytes 30..31; the stem of the test gives
\* move 61 -> 58 Normal, score -127, ply 39, result 0, halfmove 2 and
\* fullmove 20.
C13_StemDecode ==
  StemDecoded =>
    LET e == readOut[1]
        p == decompress(SubSeq(FileStem, 1, 24))
    IN /\ e.pos.pieces = p.pieces
       /\ e.pos.stm = p.stm
       /\ e.pos.castling_rights = p.castling_rights
       /\ e.pos.enpassant = p.enpassant
       /\ e.mv = MoveNormal(61, 58)
       /\ e.score = ZigZagInverse(StemWord(26))
       /\ e.ply = StemWord(28) % 16384
       /\ e.result = ZigZagInverse(StemWord(28) \div 16384)
       /\ rule50_counter(e.pos) = StemWord(30)
       /\ FileStem = STEM_TEST =>
            e = TrainingDataEntry(from_fen(FEN_STEM_TEST), MoveNormal(61, 58),
                                  -127, 39, 0)

C15_ResultPlusOne ==
  (StemDecoded /\ StemWord(28) \div 16384 \in 0..2) =>
    /\ readOut[1].result = (StemWord(28) \div 16384) - 1
    /\ readOut[1].ply = StemWord(28) % 16384

\* C15 as amended: the ply and result word is zigzag(result) << 14 | ply,
\* with zigzag(0) = 0, zigzag(-1) = 1 and zigzag(1) = 2: for result in
\* -1, 0, 1 and ply < 2^14, a stem carrying that word decodes to that
\* result and that ply.
C15_ResultZigZag ==
  (StemDecoded /\ StemWord(28) \div 16384 \in 0..2) =>
    /\ readOut[1].result
         = CASE StemWord(28) \div 16384 = 0 -> 0
             [] StemWord(28) \div 16384 = 1 -> -1
             [] StemWord(28) \div 16384 = 2 -> 1
    /\ readOut[1].ply = StemWord(28) % 16384

C15_Witness ==
  /\ StemDecoded
  /\ StemWord(28) = 2 * 16384 + 39
  /\ readOut[1].result = 1
  /\ readOut[1].ply = 39

\* C16: for every value r of the rule50 field of the stem, the decoded
\* position has rule50_counter() = r.
C16_Rule50 ==
  StemDecoded => rule50_counter(readOut[1].pos) = StemWord(30)

\* C17: the ply of the decoded position is the ply field of the stem:
\* pos.ply() = entry.ply, whatever side to move the position encodes.
C17_PositionPly ==
  StemDecoded =>
    /\ readOut[1].ply = StemWord(28) % 16384
    /\ pos_ply(readOut[1].pos) = readOut[1].ply

(***************************************************************************)
(* Properties of the move generator, over the positions of the games       *)
(***************************************************************************)
\* The positions whose moves the generator has enumerated: those written.
GeneratedFor == { written[i].pos : i \in DOMAIN written }

\* The place of a promotion piece in the order Queen, Rook, Bishop, Knight,
\* 0 for a move that is no promotion.
PromotionRank(mv) ==
  IF mv.mtype = Promotion
  THEN CHOOSE i \in 1..4 : PROMOTION_PIECES[i] = piece_type(mv.promoted_piece)
  ELSE 0

\* The key of the stated order: piece type with castling last, source
\* square, destination square, promotion rank.
OrderKey(pos, mv) ==
  << IF mv.mtype = Castle THEN King + 1
     ELSE piece_type(piece_at(pos, mv.from)),
     mv.from, mv.to, PromotionRank(mv) >>

LexLess(a, b) ==
  \E k \in 1..4 : a[k] < b[k] /\ \A j \in 1..(k - 1) : a[j] = b[j]

\* Castling moves come last; the stated order says nothing of their order
\* among themselves.
InStatedOrder(pos, ms) ==
  \A j \in 1..(Len(ms) - 1) :
    \/ ms[j].mtype = Castle /\ ms[j + 1].mtype = Castle
    \/ LexLess(OrderKey(pos, ms[j]), OrderKey(pos, ms[j + 1]))

\* C18: pseudo_legal_moves emits pawn moves, then knight, bishop, rook,
\* queen and king moves, then castling; within a piece type the sources
\* ascend, within a source the destinations ascend, and the promotions to
\* one destination come as Queen, Rook, Bishop, Knight.
C18_GeneratorOrder ==
  \A pos \in GeneratedFor : InStatedOrder(pos, pseudo_legal_moves(pos))

\* The destinations the generator enumerates for the piece on `from`, in the
\* order of their first appearance, castling moves with the king's.
RECURSIVE Distinct(_)
Distinct(s) ==
  IF s = << >> THEN << >>
  ELSE LET Keep(seen) == IF \E i \in DOMAIN seen : seen[i] = s[Len(s)]
                         THEN seen ELSE Append(seen, s[Len(s)])
       IN Keep(Distinct(SubSeq(s, 1, Len(s) - 1)))

GeneratedDestinations(ms, from) ==
  LET Tos(own) == Distinct([i \in DOMAIN own |-> own[i].to])
  IN Tos(SelectSeq(ms, LAMBDA m : m.from = from))

IndexIn(s, x) == (CHOOSE i \in DOMAIN s : s[i] = x) - 1

\* The ordinal of mv as the generator's enumeration ms gives it.
GeneratorOrdinal(pos, ms, mv) ==
  LET Of(d) ==
        IF /\ piece_type(piece_at(pos, mv.from)) = Pawn
           /\ RankOf(mv.from) = last_pawn_rank(pos.stm)
        THEN d * 4 + (piece_type(mv.promoted_piece) - Knight)
        ELSE d
  IN Of(IndexIn(GeneratedDestinations(ms, mv.from), mv.to))

OrdinalsAgree(pos, ms) ==
  \A i \in DOMAIN ms :
    MoveIndex(pos, ms[i]).move_id = GeneratorOrdinal(pos, ms, ms[i])

\* C19: for every position and every move m of pseudo_legal_moves, the
\* move_id add_move_score writes for m is the ordinal of m's destination
\* among the moves the generator enumerates for m's source piece (times
\* four plus promotion - Knight for a pawn that promotes, castling moves
\* after the king's ordinary destinations).
C19_CodecOrdinals ==
  \A pos \in GeneratedFor : OrdinalsAgree(pos, pseudo_legal_moves(pos))

\* The castling right a castling move to the rook square `to` needs.
RightOf(to) ==
  CASE to = H1 -> WHITE_KING_SIDE
    [] to = A1 -> WHITE_QUEEN_SIDE
    [] to = H8 -> BLACK_KING_SIDE
    [] to = A8 -> BLACK_QUEEN_SIDE
    [] OTHER -> "none"

\* The squares strictly between two squares of one rank.
Between(a, b) == { sq \in 0..63 : (a < sq /\ sq < b) \/ (b < sq /\ sq < a) }

\* The two squares the king passes over and lands on when it castles with
\* the rook on `to`.
KingPath(from, to) ==
  IF to > from THEN { from + 1, from + 2 } ELSE { from - 1, from - 2 }

\* The castling moves of ms obey the rule: none while the mover is in check,
\* each from the king's square to a rook origin square whose right the mover
\* holds, the squares between king and rook empty, and none of the squares
\* guarded(from, to) attacked by the opponent.
CastlingRule(pos, ms, guarded(_, _)) ==
  \A i \in DOMAIN ms :
    ms[i].mtype = Castle =>
      /\ ~is_checked(pos, pos.stm)
      /\ ms[i].from = king_sq(pos, pos.stm)
      /\ ms[i].to \in (IF pos.stm = White THEN { A1, H1 } ELSE { A8, H8 })
      /\ RightOf(ms[i].to) \in pos.castling_rights
      /\ \A sq \in Between(ms[i].from, ms[i].to) :
           piece_at(pos, sq) = PIECE_NONE
      /\ \A sq \in guarded(ms[i].from, ms[i].to) :
           ~is_attacked(pos, sq, Opp(pos.stm))

\* C20: pseudo_legal_moves emits no castling move when the side to move is
\* in check, and emits a castling move (king square to rook origin square)
\* only if the mover holds the right and the squares between king and rook
\* are all empty and not attacked by the opponent.
C20_CastlingBetweenNotAttacked ==
  \A pos \in GeneratedFor :
    CastlingRule(pos, pseudo_legal_moves(pos), Between)

\* C20 as amended: as above, but the squares that must not be attacked are
\* the two the king passes over and lands on; the square next to the
\* queen-side rook must be empty and may be attacked.
C20_CastlingKingPathNotAttacked ==
  \A pos \in GeneratedFor :
    CastlingRule(pos, pseudo_legal_moves(pos), KingPath)

\* A position whose queen-side castling move is emitted while the opponent
\* attacks the square next to the rook.
C20_Witness ==
  \E pos \in GeneratedFor :
    /\ pos.stm = White
    /\ is_attacked(pos, B1, Black)
    /\ \E ms \in { pseudo_legal_moves(pos) } :
         \E i \in DOMAIN ms : ms[i] = MoveCastle(E1, A1)

(***************************************************************************)
(* Properties of the move index of king moves                              *)
(***************************************************************************)
\* K: the squares the king on `from` attacks that hold no piece of the mover.
KingTargets(pos, from) ==
  { sq \in KING_ATTACKS[from] :
      piece_at(pos, sq) = PIECE_NONE
        \/ piece_color(piece_at(pos, sq)) # pos.stm }

\* The castling rights the mover holds.
RightsHeld(pos) ==
  pos.castling_rights \cap (IF pos.stm = White THEN CR_WHITE ELSE CR_BLACK)

LongRight(pos) ==
  IF pos.stm = White THEN WHITE_QUEEN_SIDE ELSE BLACK_QUEEN_SIDE

\* The index of the king move mv of pos is as stated.
KingIndexAsStated(pos, mv) ==
  LET Stated(ix, K) ==
        /\ ix.num_moves = K + Cardinality(RightsHeld(pos))
        /\ mv.mtype = Castle =>
             /\ ~ix.overflow
             /\ ix.move_id = (IF FileOf(mv.to) = 0 THEN K
                              ELSE K + (IF LongRight(pos) \in RightsHeld(pos)
                                        THEN 1 ELSE 0))
             /\ ix.move_id < ix.num_moves
  IN Stated(MoveIndex(pos, mv), Cardinality(KingTargets(pos, mv.from)))

KingMovesAsStated(pos, ms) ==
  \A i \in DOMAIN ms :
    piece_type(piece_at(pos, ms[i].from)) = King
      => KingIndexAsStated(pos, ms[i])

\* C21: for a king move the candidate count is K plus the number of castling
\* rights the mover holds; a long castle gets move_id K and a short castle
\* K + 1 if the mover holds the long right, else K; for every castling move
\* the generator emits the move_id is computed without underflow and is less
\* than the candidate count.
C21_CastleMoveId ==
  \A pos \in GeneratedFor : KingMovesAsStated(pos, pseudo_legal_moves(pos))

\* A short castle of a mover who holds both rights has been written as a
\* chain ply, and the writer did not panic.
C21_Witness ==
  /\ Len(written) >= 2
  /\ written[2].mv.mtype = Castle
  /\ FileOf(written[2].mv.to) = 7
  /\ Cardinality(RightsHeld(written[2].pos)) = 2
  /\ ~w.panic

(***************************************************************************)
(* Board consistency                                                       *)
(***************************************************************************)
\* The piece types and colours whose bitboards hold sq.
TypesAt(pos, sq) == { pt \in Pawn..King : sq \in pos.bb[pt + 1] }
ColoursAt(pos, sq) == { c \in { White, Black } : sq \in pos.bb_color[c + 1] }

\* pieces[sq] is the piece the bitboards give at sq.
AgreeAt(pos, sq) ==
  \/ /\ TypesAt(pos, sq) = {}
     /\ ColoursAt(pos, sq) = {}
     /\ pos.pieces[sq] = PIECE_NONE
  \/ \E pt \in Pawn..King : \E c \in { White, Black } :
       /\ TypesAt(pos, sq) = { pt }
       /\ ColoursAt(pos, sq) = { c }
       /\ pos.pieces[sq] = MkPiece(pt, c)

Consistent(pos) ==
  /\ pos.bb_color[1] \cap pos.bb_color[2] = {}
  /\ pos.bb_color[1] \cup pos.bb_color[2]
       = UNION { pos.bb[pt + 1] : pt \in Pawn..King }
  /\ \A sq \in Squares : AgreeAt(pos, sq)

SamePlacement(p, q) ==
  /\ p.bb = q.bb
  /\ p.bb_color = q.bb_color
  /\ p.pieces = q.pieces

\* The position of the entry written last.
LastWritten == written[Len(written)].pos

MovesKeepConsistent(pos, ms) ==
  \A i \in DOMAIN ms :
    \E after \in { do_move(pos, ms[i]) } :
      /\ Consistent(after)
      /\ SamePlacement(after, MovePieces(pos, ms[i]))

\* C22: from a consistent position, after do_move of any move emitted by
\* pseudo_legal_moves the colour bitboards are disjoint, their union is the
\* union of the piece-type bitboards and pieces[sq] is the piece the
\* bitboards give at every square; the en-passant simulation leaves the
\* placement as the move itself produced it.
C22_BoardConsistency ==
  (written # << >> /\ Consistent(LastWritten))
    => MovesKeepConsistent(LastWritten, pseudo_legal_moves(LastWritten))

\* A consistent position reached by a double push that set the en-passant
\* square, in which the generator emits the capture en passant.
C22_Witness ==
  /\ Len(written) >= 2
  /\ Consistent(LastWritten)
  /\ DoublePush(written[1].pos, written[1].mv)
  /\ ep_square(LastWritten) # SQ_NONE
  /\ \E ms \in { pseudo_legal_moves(LastWritten) } :
       \E i \in DOMAIN ms : ms[i].mtype = EnPassant

(***************************************************************************)
(* A fourth state machine: fields written into an empty                    *)
(* PackedMoveScoreList with add_bits_le8 and add_bits_vle16, then read by  *)
(* a BitReader over its movetext.  w is the list, written the fields       *)
(* written, r the BitReader and readOut the values read.                   *)
(***************************************************************************)
MaxFields == 2

BIT_WIDTHS == 0..8
\* The values of a field of `width` bits: none of its bits, all of them, and
\* the low bits of 10110101.
Le8Values(width) == { 0, POW2[width] - 1, 181 % POW2[width] }
VLE_VALUES == { 0, 15, 16, 4660, 32768, 65535 }

BitInit ==
  /\ overflow_checks \in BOOLEAN
  /\ w = PackedMoveScoreListNew
  /\ wstatus = "open"
  /\ file = << >>
  /\ written = << >>
  /\ cursor = [idx |-> 0, line |-> 0]
  /\ flushes = 0
  /\ lastOp = "new"
  /\ flushedEarly = FALSE
  /\ r = ReaderNone
  /\ rstatus = "none"
  /\ readOut = << >>
  /\ damaged = FALSE

\* add_bits_le8(value, width)
BitWriteLe8 ==
  /\ wstatus = "open"
  /\ Len(written) < MaxFields
  /\ \E width \in BIT_WIDTHS : \E value \in Le8Values(width) :
       /\ w' = add_bits_le8(w, value, width)
       /\ written' = Append(written, [kind |-> "le8", width |-> width,
                                      value |-> value])
  /\ UNCHANGED << overflow_checks, wstatus, file, cursor, flushes, lastOp,
                  flushedEarly, r, rstatus, readOut, damaged >>

\* add_bits_vle16(v, SCORE_VLE_BLOCK_SIZE)
BitWriteVle16 ==
  /\ wstatus = "open"
  /\ Len(written) < MaxFields
  /\ \E value \in VLE_VALUES :
       /\ w' = add_bits_vle16(w, value, SCORE_VLE_BLOCK_SIZE)
       /\ written' = Append(written, [kind |-> "vle16",
                                      width |-> SCORE_VLE_BLOCK_SIZE,
                                      value |-> value])
  /\ UNCHANGED << overflow_checks, wstatus, file, cursor, flushes, lastOp,
                  flushedEarly, r, rstatus, readOut, damaged >>

\* BitReader::new(movetext, 0)
BitReaderOpen ==
  /\ wstatus = "open"
  /\ wstatus' = "closed"
  /\ r' = BitReaderNew
  /\ rstatus' = "Ok"
  /\ UNCHANGED << overflow_checks, w, file, written, cursor, flushes, lastOp,
                  flushedEarly, readOut, damaged >>

\* extract_bits_le8(width) of the next field
BitReadLe8 ==
  /\ rstatus = "Ok"
  /\ Len(readOut) < Len(written)
  /\ written[Len(readOut) + 1].kind = "le8"
  /\ \E res \in { extract_bits_le8(r, w.movetext,
                                   written[Len(readOut) + 1].width) } :
       /\ r' = res.br
       /\ readOut' = Append(readOut, res.bits)
  /\ UNCHANGED << overflow_checks, w, wstatus, file, written, cursor,
                  flushes, lastOp, flushedEarly, rstatus, damaged >>

\* extract_vle16(SCORE_VLE_BLOCK_SIZE) of the next field
BitReadVle16 ==
  /\ rstatus = "Ok"
  /\ Len(readOut) < Len(written)
  /\ written[Len(readOut) + 1].kind = "vle16"
  /\ \E res \in { extract_vle16(r, w.movetext,
                                written[Len(readOut) + 1].width) } :
       /\ r' = res.br
       /\ readOut' = Append(readOut, res.v)
  /\ UNCHANGED << overflow_checks, w, wstatus, file, written, cursor,
                  flushes, lastOp, flushedEarly, rstatus, damaged >>

BitNext ==
  \/ BitWriteLe8
  \/ BitWriteVle16
  \/ BitReaderOpen
  \/ BitReadLe8
  \/ BitReadVle16

BitSpec == BitInit /\ [][BitNext]_vars

(***************************************************************************)
(* Properties of the bit stream                                            *)
(***************************************************************************)
\* C23: the fields written with add_bits_le8 and add_bits_vle16 into an
\* empty list are returned, in order and with the same values, by
\* extract_bits_le8 and extract_vle16 over the resulting movetext.
C23_BitRoundTrip ==
  rstatus = "Ok" =>
    /\ ~r.oob
    /\ \A i \in DOMAIN readOut : readOut[i] = written[i].value

\* Every field read back: a value of more than one block, then a field
\* that straddles two bytes.
C23_Witness ==
  /\ rstatus = "Ok"
  /\ Len(readOut) = MaxFields
  /\ \E i \in DOMAIN written :
       written[i].kind = "vle16" /\ written[i].value > 15
  /\ written[MaxFields].kind = "le8"
  /\ written[MaxFields].width > w.bits_left
  /\ w.bits_left > 0

\* The bits a field takes: its width, or for vle16 one block of width + 1
\* bits per group of `width` bits of the value.
BlockCount(v, b) == SetMin({ k \in 1..16 : k * b >= 16 \/ v < POW2[k * b] })
FieldBits(f) ==
  IF f.kind = "le8" THEN f.width
  ELSE (f.width + 1) * BlockCount(f.value, f.width)

RECURSIVE BitsOf(_)
BitsOf(fs) == IF fs = << >> THEN 0 ELSE FieldBits(Head(fs)) + BitsOf(Tail(fs))

CeilDiv8(n) == (n + 7) \div 8

PaddedWithZeros(movetext, n) ==
  movetext[Len(movetext)] % POW2[8 * Len(movetext) - n] = 0

WrittenAligned(n) ==
  n > 0 => /\ Len(w.movetext) = CeilDiv8(n)
           /\ PaddedWithZeros(w.movetext, n)

\* C24: after fields of N > 0 bits are written, movetext has ceil(N/8) bytes
\* and the unused bits of its last byte are 0; after a BitReader has read
\* fields of N bits, num_read_bytes() is ceil(N/8); so after the last field
\* the bytes read are exactly the bytes written.
C24_ByteAlignment ==
  /\ WrittenAligned(BitsOf(written))
  /\ rstatus = "Ok" =>
       /\ num_read_bytes(r)
            = CeilDiv8(BitsOf(SubSeq(written, 1, Len(readOut))))
       /\ Len(readOut) = Len(written)
            => num_read_bytes(r) = Len(w.movetext)

\* All fields read back, the bits written not filling the last byte.
C24_Witness ==
  /\ rstatus = "Ok"
  /\ Len(readOut) = MaxFields
  /\ BitsOf(written) % 8 # 0
  /\ BitsOf(written) > 8
  /\ num_read_bytes(r) = Len(w.movetext)

(***************************************************************************)
(* Properties of the chain codec, over the runs of the writer and reader   *)
(***************************************************************************)
\* C25: a chain ply of score s is written as the 16-bit delta of s and the
\* negated previous score, for every pair of int16 scores, also those whose
\* difference leaves the int16 range: the writer computes it without
\* failing, and the reader returns exactly s.
C25_ScoreDeltaCoding ==
  /\ ~w.panic
  /\ (ReaderDone /\ ~damaged /\ ~flushedEarly) =>
       \A i \in DOMAIN readOut \cap DOMAIN written :
         readOut[i].score = written[i].score

(***************************************************************************)
(* Properties of the en-passant square of decoded positions                *)
(***************************************************************************)
\* ep_square is none, or on rank 3 with Black to move, or on rank 6 with
\* White to move.
EpSquareValid(pos) ==
  \/ ep_square(pos) = SQ_NONE
  \/ RankOf(ep_square(pos)) = 2 /\ pos.stm = Black
  \/ RankOf(ep_square(pos)) = 5 /\ pos.stm = White

\* The squares to which the 24 bytes give nibble 12.
Nibble12Squares(data) ==
  { sq \in cpos_occupied(data) :
      /\ CountBefore(cpos_occupied(data), sq) < 32
      /\ NibbleAt(data, CountBefore(cpos_occupied(data), sq)) = 12 }

Nibble12Decoded(pos, sq) ==
  /\ RankOf(sq) = 3 =>
       piece_at(pos, sq) = MkPiece(Pawn, White) /\ ep_square(pos) = sq - 8
  /\ RankOf(sq) = 4 =>
       piece_at(pos, sq) = MkPiece(Pawn, Black) /\ ep_square(pos) = sq + 8

MovesKeepEpValid(pos, ms) ==
  \A i \in DOMAIN ms : EpSquareValid(do_move(pos, ms[i]))

\* C26: in the position decompress gives for any 24 bytes, and in the
\* positions do_move gives from it, ep_square is none, or on rank 3 with
\* Black to move, or on rank 6 with White to move; a nibble 12 on rank 4
\* decodes to a white pawn and on rank 5 to a black pawn, with ep_square one
\* rank behind it.
C26_EpSquareRank ==
  StemDecoded =>
    /\ EpSquareValid(readOut[1].pos)
    /\ \A sq \in Nibble12Squares(FileStem) :
         Nibble12Decoded(readOut[1].pos, sq)
    /\ MovesKeepEpValid(readOut[1].pos, pseudo_legal_moves(readOut[1].pos))

(***************************************************************************)
(* Properties of the reader, over the runs of the writer and reader        *)
(***************************************************************************)
\* next() returned an entry.
NextReturned == rstatus = "Ok" /\ rstatus' = "Ok"
                  /\ Len(readOut') = Len(readOut) + 1

\* What is_next_entry_continuation() is to be after the call: whether the
\* stem returned has a count above 0, or the chain ply returned is not the
\* last of its chain.
MoreOfChain ==
  IF r.movelist_reader = << >>
  THEN read_u16_be(r.chunk, r.offset + 32) > 0
  ELSE r.movelist_reader[1].num_read + 1 < r.movelist_reader[1].num_plies

\* C27: is_next_entry_continuation() is false before the first next(); when
\* it is true the next call returns a chain ply that continues the entry
\* last returned, and when it is false the next call returns a stem; after
\* next() it is true exactly if next() returned a stem with a count above 0
\* or a chain ply that is not the last of its chain.
C27_NextEntryContinuation ==
  /\ []((rstatus = "Ok" /\ readOut = << >>)
          => ~is_next_entry_continuation(r))
  /\ [][NextReturned =>
          /\ is_next_entry_continuation(r)
               => /\ r.movelist_reader # << >>
                  /\ ContRel(Last(readOut), Last(readOut'))
          /\ ~is_next_entry_continuation(r)
               => Last(readOut') = unpack_entry(SubSeq(r.chunk, r.offset + 1,
                                                       r.offset + 32))
          /\ is_next_entry_continuation(r') = MoreOfChain]_vars

\* A stem and the first of its two chain plies were returned and the second
\* is announced.
C27_Witness ==
  /\ rstatus = "Ok"
  /\ ~damaged
  /\ Len(readOut) = 2
  /\ ContRel(readOut[1], readOut[2])
  /\ is_next_entry_continuation(r)

\* C28: in every state of a constructed reader in which has_next() is true
\* and no chain is open, the 32 bytes of a stem and the 2 bytes of its count
\* lie inside the current chunk: offset + 34 <= chunk.len().
C28_ReaderBounds ==
  (rstatus = "Ok" /\ has_next(r) /\ r.movelist_reader = << >>)
     => r.offset + 32 + 2 <= Len(r.chunk)

(***************************************************************************)
(* Properties of the writer's buffer                                       *)
(***************************************************************************)
\* The bytes begin with the 32-byte stem of an entry passed to write_entry.
StartsWithStem(bytes) ==
  /\ Len(bytes) >= 32
  /\ \E i \in DOMAIN written : SubSeq(bytes, 1, 32) = from_entry(written[i])

\* A write_entry call that returned, right after a flush() call.
WriteAfterFlush == lastOp = "flush" /\ lastOp' = "write" /\ ~w'.panic

\* C29: for any interleaving of write_entry and flush calls, every chunk in
\* the file starts with a 32-byte stem, and so does the buffer after a
\* write_entry call (no chain ply is held without a stem for its chunk);
\* a write_entry call that follows flush() and starts a chain leaves the
\* stem of its entry alone in the buffer (the count and movetext of the
\* chain before, already in the file, are not written again), and one that
\* continues the last entry leaves no ply in the movelist without a stem in
\* the buffer.
C29_WriteAfterFlush ==
  /\ [](~damaged => \A k \in DOMAIN Chunks(file) :
                       StartsWithStem(Chunks(file)[k]))
  /\ []((lastOp = "write" /\ ~w.panic) => StartsWithStem(w.packed_entries))
  /\ [][WriteAfterFlush =>
          IF written # << >> /\ ContRel(Last(written), Last(written'))
          THEN w'.movelist.num_plies > 0 => w'.packed_size >= 32
          ELSE w'.packed_entries = from_entry(Last(written'))]_vars

(***************************************************************************)
(* A fifth state machine: one writer is handed a single long chain, the    *)
(* knights of the start position going out and back, and is dropped at any *)
(* point.  `written` keeps the stem only and cursor.idx counts the entries *)
(* of the chain.                                                           *)
(***************************************************************************)
MaxChainPlies == 3160

\* Ng1-f3, Ng8-f6, Nf3-g1, Nf6-g8
CHAIN_MOVES ==
  << MoveNormal(6, 21), MoveNormal(62, 45), MoveNormal(21, 6),
     MoveNormal(45, 62) >>

ChainMove(idx) == CHAIN_MOVES[((idx - 1) % Len(CHAIN_MOVES)) + 1]

ChainInit ==
  /\ overflow_checks \in BOOLEAN
  /\ w = CompressedTrainingDataEntryWriterNew
  /\ wstatus = "open"
  /\ file = << >>
  /\ written = << >>
  /\ cursor = [idx |-> 0, line |-> 0]
  /\ flushes = 0
  /\ lastOp = "new"
  /\ flushedEarly = FALSE
  /\ r = ReaderNone
  /\ rstatus = "none"
  /\ readOut = << >>
  /\ damaged = FALSE

\* writer.write_entry(&entry) for the entry number idx of the chain
ChainWrite(entry, idx) ==
  \E res \in { write_entry(w, file, entry) } :
     /\ wstatus = "open"
     /\ w' = res.w
     /\ file' = res.file
     /\ wstatus' = IF res.w.panic THEN "panicked" ELSE "open"
     /\ written' = IF idx = 1 THEN << entry >> ELSE written
     /\ cursor' = [idx |-> idx, line |-> 0]
     /\ lastOp' = "write"
     /\ UNCHANGED << overflow_checks, flushes, flushedEarly, r, rstatus,
                     readOut, damaged >>

\* The first entry: the start position with the first move.
ChainStart ==
  /\ cursor.idx = 0
  /\ \E pos \in { from_fen(FEN_START) } :
       ChainWrite(TrainingDataEntry(pos, ChainMove(1), 16000, pos_ply(pos),
                                    0), 1)

\* The entry that continues the last one.
ChainPly ==
  /\ cursor.idx >= 1
  /\ cursor.idx <= MaxChainPlies
  /\ ChainWrite(TrainingDataEntry(after_move(w.last_entry.pos,
                                             w.last_entry.mv),
                                  ChainMove(cursor.idx + 1), 16000,
                                  WrapU16(w.last_entry.ply + 1),
                                  w.last_entry.result),
                cursor.idx + 1)

ChainNext == ChainStart \/ ChainPly \/ Drop

ChainSpec == ChainInit /\ [][ChainNext]_vars

====
